---- MODULE Spec2Model ----
(***************************************************************************)
(* A model of the disk provisioning engine of pure-arch:                   *)
(*   - Executor (src/pure_arch/utils/executor.py): _prepare_command,       *)
(*     execute_command and run, with the outcome of subprocess.run chosen  *)
(*     by the environment;                                                 *)
(*   - prepare_disk and cleanup_mounts (src/pure_arch/disk.py), each       *)
(*     executor.run call of the provisioning sequence in two moves, the    *)
(*     call and its return;                                                *)
(*   - RichAppLogger.execution_step (src/pure_arch/utils/logger.py), the   *)
(*     step notifier.                                                      *)
(*                                                                         *)
(* Text.  A Python str is a sequence of symbols.  The characters the code  *)
(* inspects one by one ("/", "@", blank, the two quote characters) are     *)
(* always symbols of their own; a run of other characters ("mnt", "var",   *)
(* "noatime,compress=zstd") is one symbol.  strip, lstrip, os.path.join,   *)
(* shlex.split and shlex.join computed on symbols then agree with Python   *)
(* computing them on characters.                                           *)
(***************************************************************************)
EXTENDS Integers, Sequences, FiniteSets, TLC

VARIABLES
    config,      \* the ArchInstallerConfig handed to prepare_disk
    dry_run,     \* prepare_disk's dry_run argument
    pc,          \* position of prepare_disk
    todo,        \* names the subvolume-creation loop has still to visit
    idx,         \* index of the remount loop in btrfssubvolumes
    calls,       \* executor.run calls made so far, with their results
    caught,      \* the ShellCommandError the except clause is handling
    cleanups,    \* number of cleanup_mounts invocations
    outcome,     \* how prepare_disk ended
    inflight,    \* executor.run calls that were made and have not returned yet
    xcall,       \* arguments of a direct Executor call
    xres,        \* result of that call
    raw,         \* a raw subvolume name given to the normalization
    norm,        \* what the normalization made of it
    stepctx,     \* position of RichAppLogger.execution_step and of its body
    log,         \* what execution_step wrote, to the console and to the log file
    finished     \* the execution steps that were left, and how

vars ==
    <<config, dry_run, pc, todo, idx, calls, caught, cleanups, outcome, inflight, xcall, xres,
      raw, norm, stepctx, log, finished>>

diskVars == <<config, dry_run, pc, todo, idx, calls, caught, cleanups, outcome, inflight>>
execVars == <<xcall, xres>>
normVars == <<raw, norm>>
logVars == <<stepctx, log, finished>>
directVars == <<execVars, normVars, logVars>>

(***************************************************************************)
(* Bounds of the model.                                                    *)
(***************************************************************************)
MaxParts == 3        \* longest partition list of a plan
MaxSubvols == 2      \* longest btrfssubvolumes list of a plan
MaxNameLen == 3      \* longest raw subvolume name given to the normalization

(***************************************************************************)
(* Text helpers.                                                           *)
(***************************************************************************)
T(s) == <<s>>
SP == " "
DQ == "\""
SQ == "'"
NoneT == <<"None">>            \* Python None, as str() renders it
Falsy(t) == t = NoneT \/ t = <<>>
Or(t, d) == IF Falsy(t) THEN d ELSE t      \* Python's `t or d`

RECURSIVE LStrip(_, _)
LStrip(t, chars) ==
    IF t # <<>> /\ Head(t) \in chars THEN LStrip(Tail(t), chars) ELSE t

RECURSIVE RStrip(_, _)
RStrip(t, chars) ==
    IF t # <<>> /\ t[Len(t)] \in chars THEN RStrip(SubSeq(t, 1, Len(t) - 1), chars) ELSE t

Strip(t, chars) == RStrip(LStrip(t, chars), chars)
Whitespace == {SP}

(***************************************************************************)
(* shlex.split (posix mode): blanks separate words, a quote character      *)
(* opens a quoted stretch that ends at the same character and is removed,  *)
(* an unclosed quote is a ValueError.                                      *)
(***************************************************************************)
RECURSIVE Lex(_, _, _, _, _)
Lex(s, q, tok, started, acc) ==
    IF s = <<>> THEN
        IF q # "" THEN [ok |-> FALSE, words |-> <<>>]
        ELSE [ok |-> TRUE, words |-> IF started THEN Append(acc, tok) ELSE acc]
    ELSE LET c == Head(s) r == Tail(s) IN
        IF q # "" THEN
            IF c = q THEN Lex(r, "", tok, TRUE, acc)
            ELSE Lex(r, q, Append(tok, c), TRUE, acc)
        ELSE IF c \in Whitespace THEN
            Lex(r, "", <<>>, FALSE, IF started THEN Append(acc, tok) ELSE acc)
        ELSE IF c \in {DQ, SQ} THEN Lex(r, c, tok, TRUE, acc)
        ELSE Lex(r, "", Append(tok, c), TRUE, acc)

shlex_split(s) == Lex(s, "", <<>>, FALSE, <<>>)

(***************************************************************************)
(* shlex.join: the words quoted where needed, joined by one blank.         *)
(***************************************************************************)
UnsafeSymbols == {SP, DQ, SQ, "|"}

RECURSIVE EscapeSQ(_)
EscapeSQ(t) ==
    IF t = <<>> THEN <<>>
    ELSE (IF Head(t) = SQ THEN <<SQ, DQ, SQ, DQ, SQ>> ELSE <<Head(t)>>) \o EscapeSQ(Tail(t))

shlex_quote(t) ==
    IF t = <<>> THEN <<SQ, SQ>>
    ELSE IF \A i \in 1..Len(t) : t[i] \notin UnsafeSymbols THEN t
    ELSE <<SQ>> \o EscapeSQ(t) \o <<SQ>>

RECURSIVE shlex_join(_)
shlex_join(l) ==
    IF l = <<>> THEN <<>>
    ELSE IF Len(l) = 1 THEN shlex_quote(l[1])
    ELSE shlex_quote(l[1]) \o <<SP>> \o shlex_join(Tail(l))

(***************************************************************************)
(* Commands.  A command is a list of words or one string; the values of    *)
(* other Python types a caller may hand over are kept with their type and  *)
(* their str().                                                            *)
(***************************************************************************)
ListCmd(words) == [type |-> "list", isList |-> TRUE, words |-> words, str |-> <<>>]
StrCmd(s) == [type |-> "str", isList |-> FALSE, words |-> <<>>, str |-> s]
\* A value that is neither a str nor a list: None, an int, a tuple.
OtherCmd(type, text) == [type |-> type, isList |-> FALSE, words |-> <<>>, str |-> text]
NoCmd == StrCmd(<<>>)
\* A list element that is not a str, written by its repr.
NotStr(text) == <<"<not-a-str>", text>>
IsStr(a) == ~(Len(a) = 2 /\ a[1] = "<not-a-str>")

\* Variant: no command counts as empty.
CmdFalsy_Never(c) == FALSE

\* Python's `not command`: the empty string, the empty list, None, 0 and the
\* empty tuple are falsy.
CmdFalsy(c) ==
    CASE c.type = "list" -> c.words = <<>>
      [] c.type = "str" -> c.str = <<>>
      [] c.type = "NoneType" -> TRUE
      [] OTHER -> c.str \in {T("0"), T("()")}

\* str(command): the text itself, the repr of a list, the str of other values.
RECURSIVE ReprItems(_)
ReprItems(l) ==
    IF l = <<>> THEN <<>>
    ELSE (IF IsStr(l[1]) THEN <<SQ>> \o l[1] \o <<SQ>> ELSE <<l[1][2]>>)
         \o (IF Len(l) = 1 THEN <<>> ELSE <<",", SP>> \o ReprItems(Tail(l)))
PyStr(c) == IF c.type = "list" THEN <<"[">> \o ReprItems(c.words) \o <<"]">> ELSE c.str
\* shlex.join(command) if isinstance(command, list) else command
CmdString(c) == IF c.isList THEN shlex_join(c.words) ELSE c.str

(***************************************************************************)
(* The exception classes of executor.py.                                   *)
(***************************************************************************)
NoErr == [kind |-> "none", command |-> <<>>, exit_code |-> 0, stdout |-> "", stderr |-> "",
          message |-> ""]

MkErr(kind, command, exit_code, stdout, stderr, message) ==
    [kind |-> kind, command |-> command, exit_code |-> exit_code, stdout |-> stdout,
     stderr |-> stderr, message |-> message]

ShellCommandError(command, exit_code, stdout, stderr, message) ==
    MkErr("ShellCommandError", command, exit_code, stdout, stderr, message)

CommandNotFoundError(command, stdout, stderr) ==
    MkErr("CommandNotFoundError", command, 127, stdout, stderr, "Command not found.")

CommandTimeoutError(command, timeout, stdout, stderr) ==
    MkErr("CommandTimeoutError", command, 124, stdout, stderr,
          "Command timed out after " \o ToString(timeout) \o " seconds.")

InvalidCommandError(command, message) ==
    MkErr("InvalidCommandError", command, -2, "", "", message)

PermissionDeniedError(command, stdout, stderr) ==
    MkErr("PermissionDeniedError", command, 126, stdout, stderr, "Permission denied.")

\* Every class above derives from ShellCommandError.
ShellCommandErrorKinds ==
    {"ShellCommandError", "CommandNotFoundError", "CommandTimeoutError",
     "InvalidCommandError", "PermissionDeniedError"}

(***************************************************************************)
(* Executor.                                                               *)
(***************************************************************************)
DefaultTimeout == 30
chroot_path == <<"/", "mnt">>

\* Calls made on the injected logger: error, warning, critical, and entries
\* of its execution_step notifier.
NoLogs == [error |-> 0, warning |-> 0, critical |-> 0, step |-> 0]
Logged(l, level) == [l EXCEPT ![level] = @ + 1]

\* Executor._prepare_command: the argument list, or InvalidCommandError.
Prepared(list) == [raised |-> FALSE, err |-> NoErr, list |-> list]
PrepareFailed(err) == [raised |-> TRUE, err |-> err, list |-> <<>>]

ChrootPrefix(chroot, parsed) ==
    IF chroot THEN <<T("arch-chroot"), chroot_path>> \o parsed ELSE parsed

\* Variant: whatever is not a string is taken for a list of strings.
_prepare_command_Lenient(command, chroot) ==
    IF CmdFalsy(command) THEN
        PrepareFailed(InvalidCommandError(PyStr(command), "Command cannot be empty."))
    ELSE IF command.type = "str" THEN
        LET sp == shlex_split(command.str) IN
        IF ~sp.ok THEN
            PrepareFailed(InvalidCommandError(command.str, "Failed to parse command string"))
        ELSE Prepared(ChrootPrefix(chroot, sp.words))
    ELSE Prepared(ChrootPrefix(chroot, command.words))

_prepare_command(command, chroot) ==
    IF CmdFalsy(command) THEN
        PrepareFailed(InvalidCommandError(PyStr(command), "Command cannot be empty."))
    ELSE IF command.type = "str" THEN
        LET sp == shlex_split(command.str) IN
        IF ~sp.ok THEN
            PrepareFailed(InvalidCommandError(command.str, "Failed to parse command string"))
        ELSE Prepared(ChrootPrefix(chroot, sp.words))
    ELSE IF command.type = "list" THEN
        IF \E i \in 1..Len(command.words) : ~IsStr(command.words[i]) THEN
            PrepareFailed(InvalidCommandError(PyStr(command),
                                              "All elements in command list must be strings."))
        ELSE Prepared(ChrootPrefix(chroot, command.words))
    ELSE
        PrepareFailed(InvalidCommandError(PyStr(command),
                                          "Command must be a string or a list of strings."))

(***************************************************************************)
(* The environment: what subprocess.run does with a command.               *)
(*   t = "exit": the process ran and exited with rc, out, err;             *)
(*   t = "FileNotFoundError": the binary could not be spawned;             *)
(*   t = "TimeoutExpired": the timeout expired (out, err are the bytes     *)
(*       captured so far);                                                 *)
(*   t = "PermissionError", "ValueError": other exceptions of the spawn.   *)
(***************************************************************************)
Env(t, rc, out, err) == [t |-> t, rc |-> rc, out |-> out, err |-> err]
EnvOk == Env("exit", 0, "", "")

\* `phrase in stderr.lower()` for the stderr texts of the model.
StderrPhrases(stderr) ==
    CASE stderr = "bash: my_command: command not found" -> {"command not found"}
      [] stderr = "mount: Permission Denied" -> {"permission denied"}
      [] stderr = "ls: No such file or directory" -> {"no such file or directory"}
      [] OTHER -> {}

\* An exception in flight inside execute_command's try block.
Exc(ty, err, str) == [ty |-> ty, err |-> err, str |-> str]
ExcOfErr(e) ==
    Exc(e.kind, e, e.message \o " (Exit Code: " \o ToString(e.exit_code) \o ")")

\* Variant: a result is returned only after reporting it through logger.error.
Returned_LogsError(rc, out, err, spawns, logs) ==
    [raised |-> FALSE, err |-> NoErr, ret |-> <<rc, out, err>>, spawns |-> spawns,
     logs |-> Logged(logs, "error"), passed |-> <<>>]

\* The result of execute_command or run; `passed` is what run handed to
\* execute_command (nothing when it did not call it).
Returned(rc, out, err, spawns, logs) ==
    [raised |-> FALSE, err |-> NoErr, ret |-> <<rc, out, err>>, spawns |-> spawns,
     logs |-> logs, passed |-> <<>>]
Raised(e, spawns, logs) ==
    [raised |-> TRUE, err |-> e, ret |-> <<0, "", "">>, spawns |-> spawns, logs |-> logs,
     passed |-> <<>>]

\* Variant: the generic `except Exception` clause listed first.
ExceptClause_GenericFirst(ty) == 4

\* Which except clause of execute_command catches an exception raised in its
\* try block: 1 FileNotFoundError, 2 subprocess.TimeoutExpired,
\* 3 (TypeError, ValueError), 4 Exception.
ExceptClause(ty) ==
    IF ty = "FileNotFoundError" THEN 1
    ELSE IF ty = "TimeoutExpired" THEN 2
    ELSE IF ty \in {"TypeError", "ValueError"} THEN 3
    ELSE 4

\* The handlers of execute_command: what the caller gets for exception x.
HandleException(x, cmd_string_for_log, actual_timeout, env, spawns, logs) ==
    CASE ExceptClause(x.ty) = 1 ->
            Raised(CommandNotFoundError(cmd_string_for_log, "", "Command not found. Check PATH."),
                   spawns, Logged(logs, "error"))
      [] ExceptClause(x.ty) = 2 ->
            Raised(CommandTimeoutError(cmd_string_for_log, actual_timeout, env.out, env.err),
                   spawns, Logged(logs, "warning"))
      [] ExceptClause(x.ty) = 3 ->
            Raised(InvalidCommandError(cmd_string_for_log, "Argument error in command execution"),
                   spawns, Logged(logs, "error"))
      [] OTHER ->
            Raised(ShellCommandError(cmd_string_for_log, -1, "", "",
                                     "An unexpected error occurred: " \o x.str),
                   spawns, Logged(logs, "critical"))

\* The exception raised for a non-zero exit when check is set.
ClassifyExit(cmd_string_for_log, exit_code, stdout, stderr) ==
    IF "command not found" \in StderrPhrases(stderr)
       \/ "no such file or directory" \in StderrPhrases(stderr) \/ exit_code = 127
    THEN CommandNotFoundError(cmd_string_for_log, stdout, stderr)
    ELSE IF "permission denied" \in StderrPhrases(stderr) \/ exit_code = 126
    THEN PermissionDeniedError(cmd_string_for_log, stdout, stderr)
    ELSE ShellCommandError(cmd_string_for_log, exit_code, stdout, stderr,
                           "Command failed with exit code " \o ToString(exit_code))

\* timeout is {} for None, {n} for n.
ActualTimeout(timeout) == IF timeout = {} THEN DefaultTimeout ELSE CHOOSE n \in timeout : TRUE

execute_command(command, capture_output, timeout, check, shell, env) ==
    LET actual_timeout == ActualTimeout(timeout)
        cmd_string_for_log == CmdString(command)
        prep == IF shell \/ command.isList THEN Prepared(command.words)
                ELSE _prepare_command(command, FALSE)
        command_to_execute == IF shell THEN StrCmd(CmdString(command)) ELSE ListCmd(prep.list)
        spawn == <<[cmd |-> command_to_execute, shell |-> shell]>>
    IN  IF prep.raised THEN
            \* _prepare_command raised inside the try block
            HandleException(ExcOfErr(prep.err), cmd_string_for_log, actual_timeout, env,
                            <<>>, Logged(NoLogs, "error"))
        ELSE IF ~shell /\ prep.list = <<>> THEN
            \* subprocess.run([]) fails before any process exists
            HandleException(Exc("IndexError", NoErr, "list index out of range"),
                            cmd_string_for_log, actual_timeout, env, <<>>, NoLogs)
        ELSE IF env.t # "exit" THEN
            HandleException(Exc(env.t, NoErr, env.t), cmd_string_for_log, actual_timeout,
                            env, spawn, NoLogs)
        ELSE LET stdout == IF capture_output THEN env.out ELSE ""
                 stderr == IF capture_output THEN env.err ELSE ""
             IN  IF check /\ env.rc # 0 THEN
                     HandleException(
                         ExcOfErr(ClassifyExit(cmd_string_for_log, env.rc, stdout, stderr)),
                         cmd_string_for_log, actual_timeout, env, spawn,
                         Logged(NoLogs, "error"))
                 ELSE Returned(env.rc, stdout, stderr, spawn, NoLogs)

\* Variant: run without its dry-run branch.
run_NoDryRun(command, chroot, dryrun, capture_output, timeout, check, shell, env) ==
    LET prepared == _prepare_command(command, chroot)
    IN  IF prepared.raised THEN Raised(prepared.err, <<>>, Logged(NoLogs, "error"))
        ELSE LET cmd_to_pass == IF ~shell THEN ListCmd(prepared.list)
                                ELSE StrCmd(CmdString(command))
             IN  \* inside `with self.logger.execution_step(description)`
                 [execute_command(cmd_to_pass, capture_output, timeout, check, shell, env)
                      EXCEPT !.passed = <<cmd_to_pass>>, !.logs = Logged(@, "step")]

\* Executor.run
run(command, chroot, dryrun, capture_output, timeout, check, shell, env) ==
    LET original_command_str == CmdString(command)
        prepared == _prepare_command(command, chroot)
    IN  IF prepared.raised THEN Raised(prepared.err, <<>>, Logged(NoLogs, "error"))
        ELSE IF dryrun THEN Returned(0, "DRY_RUN_STDOUT", "DRY_RUN_STDERR", <<>>, NoLogs)
        ELSE LET cmd_to_pass == IF ~shell THEN ListCmd(prepared.list)
                                ELSE StrCmd(original_command_str)
             IN  \* inside `with self.logger.execution_step(description)`
                 [execute_command(cmd_to_pass, capture_output, timeout, check, shell, env)
                      EXCEPT !.passed = <<cmd_to_pass>>, !.logs = Logged(@, "step")]

(***************************************************************************)
(* Direct calls of the Executor, with the inputs the tests use and a few   *)
(* more.                                                                   *)
(***************************************************************************)
XCommands ==
    { ListCmd(<<T("fdisk"), T("-l")>>),
      StrCmd(<<"my_command", SP, "--arg">>),
      StrCmd(<<"printf", SP, DQ, "123", DQ, SP, "|", SP, "cryptsetup">>),
      ListCmd(<<T("echo"), <<"a", SP, "b">>>>),
      StrCmd(<<"echo", SP, SQ, "x">>),
      StrCmd(<<>>),
      StrCmd(<<SP>>),
      ListCmd(<<>>) }

\* Values _prepare_command must refuse besides the empty ones above.
XInvalidCommands ==
    { OtherCmd("NoneType", NoneT),
      ListCmd(<<T("ls"), NotStr("123")>>),
      OtherCmd("int", T("123")),
      OtherCmd("int", T("0")),
      OtherCmd("tuple", T("('ls',)")) }

XEnvs ==
    { Env("exit", 0, "disk found", ""),
      Env("exit", 1, "", "Minor error"),
      Env("exit", 5, "Some output", "Unknown failure"),
      Env("exit", 127, "", "bash: my_command: command not found"),
      Env("exit", 127, "", ""),
      Env("exit", 1, "", "bash: my_command: command not found"),
      Env("exit", 126, "", ""),
      Env("exit", 1, "", "mount: Permission Denied"),
      Env("exit", 2, "", "ls: No such file or directory"),
      Env("FileNotFoundError", 0, "", ""),
      Env("TimeoutExpired", 0, "partial", ""),
      Env("TimeoutExpired", 0, "", ""),
      Env("PermissionError", 0, "", ""),
      Env("ValueError", 0, "", "") }

XTimeouts == {{}, {5}}

XCall(op, command, chroot, dryrun, capture_output, timeout, check, shell, env) ==
    [op |-> op, done |-> FALSE, command |-> command, chroot |-> chroot, dryrun |-> dryrun,
     capture_output |-> capture_output, timeout |-> timeout, check |-> check,
     shell |-> shell, env |-> env]

XIdle == XCall("idle", NoCmd, FALSE, FALSE, TRUE, {}, TRUE, FALSE, EnvOk)
XNoRes == Returned(0, "", "", <<>>, NoLogs)

\* The calls the model makes: every combination of the arguments.
XCalls ==
    { XCall("execute_command", command, FALSE, FALSE, capture_output, timeout, check, shell, env)
      : command \in XCommands, capture_output \in BOOLEAN, timeout \in XTimeouts,
        check \in BOOLEAN, shell \in BOOLEAN, env \in XEnvs }
    \cup
    { XCall("run", command, chroot, dryrun, TRUE, timeout, check, shell, env)
      : command \in XCommands, chroot \in BOOLEAN, dryrun \in BOOLEAN,
        timeout \in XTimeouts, check \in BOOLEAN, shell \in BOOLEAN, env \in XEnvs }
    \cup
    { XCall("_prepare_command", command, chroot, FALSE, TRUE, {}, TRUE, FALSE, EnvOk)
      : command \in XCommands \cup XInvalidCommands, chroot \in BOOLEAN }

\* Direct call of Executor._prepare_command.
PrepareCommandCall ==
    /\ xcall.op = "_prepare_command" /\ ~xcall.done
    /\ xres' = _prepare_command(xcall.command, xcall.chroot)
    /\ xcall' = [xcall EXCEPT !.done = TRUE]
    /\ UNCHANGED <<diskVars, normVars, logVars>>

ExecuteCommandCall ==
    /\ xcall.op = "execute_command" /\ ~xcall.done
    /\ xres' = execute_command(xcall.command, xcall.capture_output, xcall.timeout,
                               xcall.check, xcall.shell, xcall.env)
    /\ xcall' = [xcall EXCEPT !.done = TRUE]
    /\ UNCHANGED <<diskVars, normVars, logVars>>

RunCall ==
    /\ xcall.op = "run" /\ ~xcall.done
    /\ xres' = run(xcall.command, xcall.chroot, xcall.dryrun, xcall.capture_output,
                   xcall.timeout, xcall.check, xcall.shell, xcall.env)
    /\ xcall' = [xcall EXCEPT !.done = TRUE]
    /\ UNCHANGED <<diskVars, normVars, logVars>>

(***************************************************************************)
(* DiskManager.format_partition (executors/disk.py).                       *)
(***************************************************************************)
\* The parameters Executor.run accepts and the keywords format_partition
\* calls it with.
RunParameters ==
    {"description", "command", "chroot", "dryrun", "capture_output", "timeout", "check",
     "shell", "cwd"}
FormatKeywords == {"description", "command", "verbose", "check"}

\* The if/elif chain that builds fs_cmd.
fs_cmd(filesystem, label) ==
    CASE filesystem = "ext4" ->
            <<T("mkfs.ext4"), T("-F")>> \o (IF Falsy(label) THEN <<>> ELSE <<T("-L"), label>>)
      [] filesystem = "btrfs" ->
            <<T("mkfs.btrfs"), T("-f")>> \o (IF Falsy(label) THEN <<>> ELSE <<T("-L"), label>>)
      [] filesystem = "fat32" ->
            <<T("mkfs.fat"), T("-F32")>> \o (IF Falsy(label) THEN <<>> ELSE <<T("-n"), label>>)
      [] filesystem = "swap" ->
            <<T("mkswap")>> \o (IF Falsy(label) THEN <<>> ELSE <<T("-L"), label>>)

format_partition(partition_path, filesystem, label, env) ==
    IF filesystem \notin {"ext4", "btrfs", "fat32", "swap"} THEN
        Raised(MkErr("ValueError", <<>>, 0, "", "", "Unsupported filesystem"), <<>>, NoLogs)
    ELSE IF ~(FormatKeywords \subseteq RunParameters) THEN
        \* the call binds no parameter named by an unknown keyword
        Raised(MkErr("TypeError", <<>>, 0, "", "", "unexpected keyword argument"),
               <<>>, NoLogs)
    ELSE run(ListCmd(fs_cmd(filesystem, label) \o <<partition_path>>), FALSE, FALSE, TRUE,
             {}, TRUE, FALSE, env)

\* Partition.filesystem
PartitionFilesystems == {"fat32", "vfat", "ext4", "btrfs", "xfs", "f2fs"}

\* Direct calls of format_partition.
FormatCalls ==
    { [op |-> "format_partition", partition_path |-> partition_path,
       filesystem |-> filesystem, label |-> label, env |-> env, done |-> FALSE]
      : partition_path \in {<<"/", "dev", "/", "sdb", "1">>, <<"/", "dev", "/", "sdb", "2">>},
        filesystem \in PartitionFilesystems \cup {"swap", "ntfs"},
        label \in {NoneT, <<>>, T("ARCH_ROOT")},
        env \in {EnvOk, Env("exit", 1, "", "mkfs failed"), Env("TimeoutExpired", 0, "", "")} }

FormatPartitionCall ==
    /\ xcall.op = "format_partition" /\ ~xcall.done
    /\ xres' = format_partition(xcall.partition_path, xcall.filesystem, xcall.label, xcall.env)
    /\ xcall' = [xcall EXCEPT !.done = TRUE]
    /\ UNCHANGED <<diskVars, normVars, logVars>>

(***************************************************************************)
(* The configuration model (config/models.py): Disk and Partition.         *)
(***************************************************************************)
Partition(number, label, type, size, path, filesystem, crypt, cryptname, cryptlabel, btrfsoptions, btrfssubvolumes) ==
    [number |-> number, label |-> label, type |-> type, size |-> size, start |-> T("0"),
     path |-> path, guid |-> NoneT, filesystem |-> filesystem, crypt |-> crypt,
     crypttype |-> T("luks2"), cryptname |-> cryptname, cryptlabel |-> cryptlabel,
     btrfsoptions |-> btrfsoptions, btrfssubvolumes |-> btrfssubvolumes]

\* Optional[List[str]]: None, or a list of texts.
NoList == [none |-> TRUE, list |-> <<>>]
SomeList(l) == [none |-> FALSE, list |-> l]
ListFalsy(o) == o.none \/ o.list = <<>>

Config(hasDisk, wipe, partition) ==
    [hasDisk |-> hasDisk, path |-> <<"/", "dev", "/", "sdb">>, wipe |-> wipe,
     partition |-> partition]

NoPartition ==
    Partition(0, <<>>, <<>>, <<>>, NoneT, "none", FALSE, NoneT, NoneT, NoneT, NoList)

(***************************************************************************)
(* prepare_disk: validation and extraction (disk.py 39-69).                *)
(***************************************************************************)
luks_password == T("123")

IsEfiPartition(p) == p.filesystem \in {"fat32", "vfat"}
IsRootPartition(p) == ~IsEfiPartition(p) /\ p.crypt /\ p.filesystem = "btrfs"

\* The loop keeps the last partition of the wanted branch ("efi" or "root").
RECURSIVE LastMatching(_, _, _)
LastMatching(parts, branch, found) ==
    IF parts = <<>> THEN found
    ELSE LET p == Head(parts)
             hit == IF branch = "efi" THEN IsEfiPartition(p) ELSE IsRootPartition(p)
         IN LastMatching(Tail(parts), branch, IF hit THEN p ELSE found)

efi_config(cfg) == LastMatching(cfg.partition, "efi", NoPartition)
root_config(cfg) == LastMatching(cfg.partition, "root", NoPartition)

\* Variant: the subvolume list is not looked at.
ValidationOk_NoSubvolCheck(cfg) ==
    /\ cfg.hasDisk
    /\ efi_config(cfg) # NoPartition
    /\ root_config(cfg) # NoPartition

\* Variant: only an absent subvolume list is refused, an empty one passes.
ValidationOk_OnlyAbsent(cfg) ==
    /\ cfg.hasDisk
    /\ efi_config(cfg) # NoPartition
    /\ root_config(cfg) # NoPartition
    /\ ~root_config(cfg).btrfssubvolumes.none

ValidationOk(cfg) ==
    /\ cfg.hasDisk
    /\ efi_config(cfg) # NoPartition
    /\ root_config(cfg) # NoPartition
    /\ ~ListFalsy(root_config(cfg).btrfssubvolumes)

PasswordOk(dry) == ~(Falsy(luks_password) /\ ~dry)

Num(n) == T(ToString(n))
target_device(cfg) == cfg.path
efi_part(cfg) == target_device(cfg) \o Num(efi_config(cfg).number)
root_part(cfg) == target_device(cfg) \o Num(root_config(cfg).number)
mapper_name(cfg) == Or(root_config(cfg).cryptname, T("linuxroot"))
\* Variant: the mapped device is always the default one.
luks_device_Default(cfg) == <<"/", "dev", "/", "mapper", "/">> \o T("linuxroot")

luks_device(cfg) == <<"/", "dev", "/", "mapper", "/">> \o mapper_name(cfg)
MNT == <<"/", "mnt">>

(***************************************************************************)
(* RichAppLogger.execution_step (utils/logger.py), the step notifier the   *)
(* executor enters around a command.                                       *)
(***************************************************************************)
MaxSteps == 2        \* execution steps entered one after the other

StepMessages == {T("Running a task successfully"), T("Running a task that fails")}
\* How the body of the `with` block ends: normally ("none"), or with an
\* exception of the given class.
BodyExceptions == {"ValueError", "ShellCommandError", "CommandTimeoutError"}

StepIdle == [pc |-> "idle", message |-> <<>>, exc |-> "none"]
\* One line written by execution_step: on the console or in the log file.
Ev(chan, tag, message) == [chan |-> chan, tag |-> tag, message |-> message]

\* The names bound in the module namespace of logger.py (its imports and its
\* own classes and functions); the executor's exception classes are not
\* among them.
LoggerGlobals ==
    {"logging", "os", "sys", "Optional", "contextmanager", "Console", "Text", "Status",
     "RichHandler", "Theme", "SECTION_LEVEL_NUM", "EXECUTE_LEVEL_NUM", "AppLogger",
     "FileFormatter", "RichAppLogger", "ExecuteFilter", "initialize_app_logger"}

\* Variant: ShellCommandError is known to the logger module.
is_critical_Imported(e) == e \in ShellCommandErrorKinds

is_critical(e) == "ShellCommandError" \in LoggerGlobals /\ e \in ShellCommandErrorKinds
status_tag(e) == IF is_critical(e) THEN "[CRITICAL]" ELSE "[FAILED]"

\* with logger.execution_step(message): the spinner is started and the start
\* is logged.
EnterStep ==
    /\ stepctx.pc = "idle" /\ Len(finished) < MaxSteps
    /\ \E m \in StepMessages :
        /\ stepctx' = [pc |-> "body", message |-> m, exc |-> "none"]
        /\ log' = log \o <<Ev("console", "status [RUNNING]", m), Ev("file", "[RUNNING]", m)>>
    /\ UNCHANGED <<finished, diskVars, execVars, normVars>>

\* The body of the with block runs to its end.
BodyReturns ==
    /\ stepctx.pc = "body"
    /\ stepctx' = [stepctx EXCEPT !.pc = "after_yield"]
    /\ UNCHANGED <<log, finished, diskVars, execVars, normVars>>

\* The body of the with block raises.
BodyRaises ==
    /\ stepctx.pc = "body"
    /\ \E e \in BodyExceptions : stepctx' = [stepctx EXCEPT !.pc = "except", !.exc = e]
    /\ UNCHANGED <<log, finished, diskVars, execVars, normVars>>

\* After the yield: the success line on the console and in the file.
CompleteStep ==
    /\ stepctx.pc = "after_yield"
    /\ log' = log \o <<Ev("console", "[COMPLETED]", stepctx.message),
                       Ev("file", "[COMPLETED]", stepctx.message)>>
    /\ finished' = Append(finished, [message |-> stepctx.message, body |-> "none",
                                     raised |-> "none"])
    /\ stepctx' = StepIdle
    /\ UNCHANGED <<diskVars, execVars, normVars>>

\* except Exception as e: the failure line, the logged exception and, unless
\* the failure is critical, the traceback on the console.
FailStep ==
    /\ stepctx.pc = "except"
    /\ log' = log \o <<Ev("console", status_tag(stepctx.exc), stepctx.message),
                       Ev("file", status_tag(stepctx.exc), stepctx.message),
                       Ev("file", "exception", stepctx.message)>>
                  \o (IF is_critical(stepctx.exc) THEN <<>>
                      ELSE <<Ev("console", "Traceback", <<>>),
                             Ev("console", "print_exception", <<>>)>>)
    /\ stepctx' = [stepctx EXCEPT !.pc = "reraise"]
    /\ UNCHANGED <<finished, diskVars, execVars, normVars>>

\* raise: the exception leaves the context manager.
Reraise ==
    /\ stepctx.pc = "reraise"
    /\ finished' = Append(finished, [message |-> stepctx.message, body |-> stepctx.exc,
                                     raised |-> stepctx.exc])
    /\ stepctx' = StepIdle
    /\ UNCHANGED <<log, diskVars, execVars, normVars>>

(***************************************************************************)
(* The commands of prepare_disk, in the order of the source.               *)
(***************************************************************************)
WipeCommand(cfg) == StrCmd(<<"sgdisk", SP, "-Z", SP>> \o target_device(cfg))

SgdiskArgs(p) ==
    << <<"-n">> \o Num(p.number) \o <<":">> \o Or(p.start, T("0")) \o <<":">> \o p.size,
       <<"-t">> \o Num(p.number) \o <<":">> \o Or(p.guid, p.type),
       <<"-c">> \o Num(p.number) \o <<":">> \o p.label >>

\* Variant: the argument list is built for two partitions, whatever the plan.
sgdisk_commands_FirstTwo(parts) ==
    IF Len(parts) < 2 THEN (IF parts = <<>> THEN <<>> ELSE SgdiskArgs(parts[1]))
    ELSE SgdiskArgs(parts[1]) \o SgdiskArgs(parts[2])

RECURSIVE sgdisk_commands(_)
sgdisk_commands(parts) ==
    IF parts = <<>> THEN <<>> ELSE SgdiskArgs(Head(parts)) \o sgdisk_commands(Tail(parts))

PartitionCommand(cfg) ==
    ListCmd(<<T("sgdisk")>> \o sgdisk_commands(cfg.partition) \o <<target_device(cfg)>>)

PartprobeCommand(cfg) == StrCmd(<<"partprobe", SP, "-s", SP>> \o target_device(cfg))

crypt_type(cfg) == Or(root_config(cfg).crypttype, T("luks2"))
crypt_label_arg(cfg) ==
    IF Falsy(root_config(cfg).cryptlabel) THEN <<>>
    ELSE <<"--label=">> \o root_config(cfg).cryptlabel

\* The two f-strings; line breaks and indentation are blanks.
luks_format_command(cfg) ==
    StrCmd(<<SP, SP, "printf", SP, DQ>> \o luks_password
           \o <<DQ, SP, "|", SP, "cryptsetup", SP, "--batch-mode", SP, "luksFormat", SP, SP,
                "--type=">> \o crypt_type(cfg) \o <<SP>> \o crypt_label_arg(cfg) \o <<SP>>
           \o root_part(cfg) \o <<SP, SP>>)

luks_open_command(cfg) ==
    StrCmd(<<SP, SP, "printf", SP, DQ>> \o luks_password
           \o <<DQ, SP, "|", SP, "cryptsetup", SP, "luksOpen", SP, SP>>
           \o root_part(cfg) \o <<SP>> \o mapper_name(cfg) \o <<SP, SP>>)

MkfsEfiCommand(cfg) ==
    ListCmd(<<T("mkfs.vfat"), T("-F32"), T("-n"), efi_config(cfg).label, efi_part(cfg)>>)

MkfsBtrfsCommand(cfg) ==
    ListCmd(<<T("mkfs.btrfs"), T("-f"), T("-L"),
              Or(root_config(cfg).cryptlabel, T("linuxroot")), luks_device(cfg)>>)

MountRawCommand(cfg) == ListCmd(<<T("mount"), luks_device(cfg), MNT>>)

\* Variant: the leading '@' is kept.
CleanName_NoLStrip(s) == Strip(s, {"/"})

\* s.strip('/').lstrip('@')
CleanName(s) == LStrip(Strip(s, {"/"}), {"@"})
\* s.strip(): truthy unless s is empty or blank
StripWs(s) == Strip(s, Whitespace)

RECURSIVE cleaned_subvols(_)
cleaned_subvols(l) ==
    IF l = <<>> THEN <<>>
    ELSE (IF StripWs(Head(l)) # <<>> THEN <<CleanName(Head(l))>> ELSE <<>>)
         \o cleaned_subvols(Tail(l))

\* set(["@"] + [s for s in cleaned_subvols if s != ''])
subvolumes_to_create(cfg) ==
    LET c == cleaned_subvols(root_config(cfg).btrfssubvolumes.list)
    IN  {T("@")} \cup {c[i] : i \in {j \in 1..Len(c) : c[j] # <<>>}}

subvol_path(name) ==
    IF name = T("@") THEN MNT \o <<"/", "@">> ELSE MNT \o <<"/", "@">> \o name

SubvolCreateCommand(name) ==
    ListCmd(<<T("btrfs"), T("subvolume"), T("create"), subvol_path(name)>>)

UmountCommand == ListCmd(<<T("umount"), MNT>>)

btrfs_options(cfg) == Or(root_config(cfg).btrfsoptions, T("noatime,compress=zstd"))
root_mount_options(cfg) == btrfs_options(cfg) \o <<",subvol=", "@">>

RemountRootCommand(cfg) ==
    ListCmd(<<T("mount"), T("-o"), root_mount_options(cfg), luks_device(cfg), MNT>>)

\* os.path.join(a, b): an absolute b replaces a.
os_path_join(a, b) ==
    IF b # <<>> /\ Head(b) = "/" THEN b
    ELSE IF a # <<>> /\ a[Len(a)] = "/" THEN a \o b
    ELSE a \o <<"/">> \o b

subvol_name(cfg, i) == CleanName(root_config(cfg).btrfssubvolumes.list[i])
\* Variant: the remount loop skips nothing.
SkippedInRemount_Never(cfg, i) == FALSE

SkippedInRemount(cfg, i) == StripWs(subvol_name(cfg, i)) = <<>>
mount_path(cfg, i) == os_path_join(MNT, subvol_name(cfg, i))

\* The remount loop's next iteration that is not skipped by `continue`.
RECURSIVE NextMountIdx(_, _)
NextMountIdx(cfg, i) ==
    IF i > Len(root_config(cfg).btrfssubvolumes.list) THEN i
    ELSE IF SkippedInRemount(cfg, i) THEN NextMountIdx(cfg, i + 1)
    ELSE i

SubvolMkdirCommand(cfg, i) == ListCmd(<<T("mkdir"), T("-p"), mount_path(cfg, i)>>)

\* Variant: the subvolume mounts always take the default options.
subvol_mount_options_Default(cfg, i) ==
    T("noatime,compress=zstd") \o <<",subvol=", "@">> \o subvol_name(cfg, i)

subvol_mount_options(cfg, i) ==
    btrfs_options(cfg) \o <<",subvol=", "@">> \o subvol_name(cfg, i)

SubvolMountCommand(cfg, i) ==
    ListCmd(<<T("mount"), T("-o"), subvol_mount_options(cfg, i), luks_device(cfg),
              mount_path(cfg, i)>>)

\* The normalization of one raw name, as the two loops do it: the
\* identifier f"@{name}", and the mount path (a name that cleans to nothing
\* is the root subvolume, mounted at /mnt).
NormName(s) == <<"@">> \o CleanName(s)
NormPath(s) ==
    IF StripWs(CleanName(s)) = <<>> THEN MNT ELSE os_path_join(MNT, CleanName(s))
NoNorm == [done |-> FALSE, name |-> <<>>, path |-> <<>>, name2 |-> <<>>, path2 |-> <<>>]

efi_mount_point(cfg) == MNT \o efi_config(cfg).path

EfiMkdirCommand(cfg) == ListCmd(<<T("mkdir"), T("-p"), efi_mount_point(cfg)>>)

EfiMountCommand(cfg) ==
    ListCmd(<<T("mount"), T("-o"), T("uid=0,gid=0,umask=077"), efi_part(cfg),
              efi_mount_point(cfg)>>)

CleanupUmountCommand == ListCmd(<<T("umount"), T("-R"), MNT>>)
CleanupCloseCommand == ListCmd(<<T("cryptsetup"), T("luksClose"), T("linuxroot")>>)

(***************************************************************************)
(* The descriptions prepare_disk and cleanup_mounts give to executor.run.  *)
(***************************************************************************)
\* str.upper() for the filesystem values of the model.
Upper(fs) ==
    CASE fs = "vfat" -> "VFAT" [] fs = "fat32" -> "FAT32" [] fs = "btrfs" -> "BTRFS"
      [] fs = "ext4" -> "EXT4" [] OTHER -> "NONE"

WipeDescription(cfg) ==
    <<"Wiping existing partitions and partition table on ">> \o target_device(cfg)
PartitionDescription == <<"Creating partitions based on config">>
PartprobeDescription == <<"Updating kernel partition table">>
LuksFormatDescription(cfg) ==
    <<"Encrypting root partition ">> \o root_part(cfg) \o <<" with ">> \o crypt_type(cfg)
    \o <<" (Non-Interactive)">>
LuksOpenDescription(cfg) ==
    <<"Opening LUKS volume as ">> \o luks_device(cfg) \o <<" (Non-Interactive)">>
MkfsEfiDescription(cfg) ==
    <<"Creating ", Upper(efi_config(cfg).filesystem), " filesystem on EFI partition ">>
    \o efi_part(cfg)
MkfsBtrfsDescription(cfg) ==
    <<"Creating BTRFS filesystem on LUKS volume ">> \o luks_device(cfg)
MountRawDescription(cfg) ==
    <<"Mounting BTRFS volume ">> \o luks_device(cfg) \o <<" to /mnt for subvolume creation">>
SubvolCreateDescription(name) == <<"Creating BTRFS subvolume ", "@">> \o name
UmountDescription == <<"Unmounting /mnt to prepare for subvolume remounting">>
RemountRootDescription(cfg) ==
    <<"Remounting BTRFS root subvolume to /mnt with options: ">> \o root_mount_options(cfg)
SubvolMkdirDescription(cfg, i) == <<"Creating destination directory ">> \o mount_path(cfg, i)
SubvolMountDescription(cfg, i) ==
    <<"Mounting subvolume ", "@">> \o subvol_name(cfg, i) \o <<" to ">> \o mount_path(cfg, i)
EfiMkdirDescription(cfg) == <<"Creating EFI mount point ">> \o efi_mount_point(cfg)
EfiMountDescription(cfg) ==
    <<"Mounting EFI partition ">> \o efi_part(cfg) \o <<" to ">> \o efi_mount_point(cfg)
CleanupUmountDescription == <<"Unmounting all recursively from /mnt">>
CleanupCloseDescription == <<"Closing LUKS volume 'linuxroot'">>

(***************************************************************************)
(* Telling what a command is from its words.                               *)
(***************************************************************************)
CleanupSteps == {"cleanup_umount", "cleanup_close"}

\* The words of a command as the executor tokenizes them.
WordsOf(c) == IF c.isList THEN c.words ELSE shlex_split(c.str).words
HasWord(c, w) == \E i \in 1..Len(WordsOf(c)) : WordsOf(c)[i] = w
HasSymbol(t, sym) == \E i \in 1..Len(t) : t[i] = sym

\* text `sub` occurs in text `t`
Contains(t, sub) ==
    \E i \in 0..(Len(t) - Len(sub)) : SubSeq(t, i + 1, i + Len(sub)) = sub

\* What a command is, told from its words alone.
Kind(c) ==
    LET w == WordsOf(c) n == Len(w) IN
    CASE n = 0 -> "empty"
      [] n > 0 /\ w[1] = T("sgdisk") /\ n > 1 /\ w[2] = T("-Z") -> "wipe"
      [] n > 0 /\ w[1] = T("sgdisk") /\ ~(n > 1 /\ w[2] = T("-Z")) -> "partition"
      [] n > 0 /\ w[1] = T("partprobe") -> "partprobe"
      [] n > 0 /\ w[1] = T("printf") /\ HasWord(c, T("luksFormat")) -> "luksFormat"
      [] n > 0 /\ w[1] = T("printf") /\ HasWord(c, T("luksOpen")) -> "luksOpen"
      [] n > 0 /\ w[1] = T("mkfs.vfat") -> "mkfsEfi"
      [] n > 0 /\ w[1] = T("mkfs.btrfs") -> "mkfsBtrfs"
      [] n = 3 /\ w[1] = T("mount") -> "mountRaw"
      [] n > 0 /\ w[1] = T("btrfs") -> "subvolCreate"
      [] n = 2 /\ w[1] = T("umount") -> "umount"
      [] n = 3 /\ w[1] = T("umount") -> "cleanup_umount"
      [] n = 3 /\ w[1] = T("cryptsetup") -> "cleanup_close"
      [] n > 0 /\ w[1] = T("mkdir") -> "mkdir"
      [] n = 5 /\ w[1] = T("mount") /\ w[3] = T("uid=0,gid=0,umask=077") -> "mountEfi"
      [] n = 5 /\ w[1] = T("mount") /\ HasSymbol(w[3], ",subvol=")
               /\ w[3][Len(w[3])] = "@" -> "remountRoot"
      [] n = 5 /\ w[1] = T("mount") /\ HasSymbol(w[3], ",subvol=")
               /\ w[3][Len(w[3])] # "@" -> "mountSubvol"
      [] OTHER -> "other"

(***************************************************************************)
(* prepare_disk as a state machine: one action per executor.run call.      *)
(***************************************************************************)
\* What subprocess.run may do to a command of a provisioning run.
DiskEnvs ==
    { EnvOk,
      Env("exit", 5, "", "Unknown failure"),
      Env("TimeoutExpired", 0, "", "") }

\* What subprocess.run may do to a command of cleanup_mounts.
CleanupEnvs ==
    DiskEnvs \cup { Env("FileNotFoundError", 0, "", ""), Env("ValueError", 0, "", ""),
                    Env("PermissionError", 0, "", "") }

Running == [state |-> "running", err |-> NoErr]
ReturnedNormally == [state |-> "returned", err |-> NoErr]
RaisedTo(e) == [state |-> "raised", err |-> e]
ConfigError(message) == MkErr("ValueError", <<>>, 0, "", "", message)

\* `except ShellCommandError` of prepare_disk
CaughtByPrepareDisk(e) == e.kind \in ShellCommandErrorKinds
\* Variant: cleanup_mounts without its try/except.
CaughtByCleanup_Nothing(e) == FALSE

\* Variant: cleanup_mounts catching only the generic failure.
CaughtByCleanup_OnlyGeneric(e) == e.kind = "ShellCommandError"

\* `except Exception` of cleanup_mounts
CaughtByCleanup(e) == e.kind \in ShellCommandErrorKinds \cup {"ValueError", "TypeError"}

\* A recorded executor.run call: its arguments, its result, and (kind) what
\* the command is, told from its words.
Call(step, description, command, capture_output, check, res) ==
    [step |-> step, description |-> description, command |-> command, kind |-> Kind(command), dryrun |-> dry_run,
     capture_output |-> capture_output, check |-> check, res |-> res]

\* The executor.run calls in flight.  prepare_disk is one thread of control
\* and executor.run blocks in subprocess.run until the process has ended (or
\* has been killed on timeout), so a call leaves the set when it returns or
\* raises.  n is the ordinal of the call in the run.
Launched(n) == \E e \in inflight : e.n = n
Launch(fl, n, command) == fl \cup {[n |-> n, command |-> command]}
\* Variant: the process is started and not waited for.
Reap_Never(fl, n) == fl

Reap(fl, n) == {e \in fl : e.n # n}

\* Variant: a failed command is issued again.
Step_Retry(step, description, command, capture_output, next) ==
    IF ~Launched(Len(calls) + 1) THEN
        /\ inflight' = Launch(inflight, Len(calls) + 1, command)
        /\ UNCHANGED <<calls, pc, outcome, caught, cleanups>>
    ELSE
        /\ [n |-> Len(calls) + 1, command |-> command] \in inflight
        /\ inflight' = Reap(inflight, Len(calls) + 1)
        /\ \E env \in (IF dry_run THEN {EnvOk} ELSE DiskEnvs) :
            LET r == run(command, FALSE, dry_run, capture_output, {}, TRUE, FALSE, env) IN
            /\ calls' = Append(calls, Call(step, description, command, capture_output, TRUE, r))
            /\ pc' = IF r.raised THEN pc ELSE next
            /\ outcome' = IF ~r.raised /\ next = "done" THEN ReturnedNormally ELSE outcome
            /\ UNCHANGED <<caught, cleanups>>

\* executor.run(description, command, dryrun=dry_run[, capture_output=...]) inside
\* the try block, in two moves: the call is made; the call returns or raises.
\* On success go to `next`, on a ShellCommandError enter the except clause,
\* which calls cleanup_mounts.
Step(step, description, command, capture_output, next) ==
    IF ~Launched(Len(calls) + 1) THEN
        /\ inflight' = Launch(inflight, Len(calls) + 1, command)
        /\ UNCHANGED <<calls, pc, outcome, caught, cleanups>>
    ELSE
        /\ [n |-> Len(calls) + 1, command |-> command] \in inflight
        /\ inflight' = Reap(inflight, Len(calls) + 1)
        /\ \E env \in (IF dry_run THEN {EnvOk} ELSE DiskEnvs) :
            LET r == run(command, FALSE, dry_run, capture_output, {}, TRUE, FALSE, env) IN
            /\ calls' = Append(calls, Call(step, description, command, capture_output, TRUE, r))
            /\ IF ~r.raised THEN
                   /\ pc' = next
                   /\ outcome' = IF next = "done" THEN ReturnedNormally ELSE outcome
                   /\ UNCHANGED <<caught, cleanups>>
               ELSE IF CaughtByPrepareDisk(r.err) THEN
                   /\ pc' = "cleanup_umount"
                   /\ caught' = r.err
                   /\ cleanups' = cleanups + 1
                   /\ UNCHANGED outcome
               ELSE
                   /\ pc' = "done"
                   /\ outcome' = RaisedTo(r.err)
                   /\ UNCHANGED <<caught, cleanups>>

\* The move was the return of a call, and it did not raise.
Succeeded == Len(calls') > Len(calls) /\ ~calls'[Len(calls')].res.raised

\* Variant: the BTRFS filesystem created before the EFI filesystem.
StepAfter_MkfsSwapped(step) ==
    CASE step = "wipe" -> "partition"
      [] step = "partition" -> "partprobe"
      [] step = "partprobe" -> "luksFormat"
      [] step = "luksFormat" -> "luksOpen"
      [] step = "luksOpen" -> "mkfsBtrfs"
      [] step = "mkfsBtrfs" -> "mkfsEfi"
      [] step = "mkfsEfi" -> "mountRaw"
      [] step = "mountRaw" -> "subvolCreate"
      [] step = "subvolCreate" -> "umount"
      [] step = "umount" -> "remountRoot"
      [] step = "subvolMkdir" -> "subvolMount"
      [] step = "subvolMount" -> "efiMkdir"
      [] step = "efiMkdir" -> "efiMount"
      [] step = "efiMount" -> "done"

\* The statement that follows a step in the try block (after a loop: the
\* statement that follows the loop).
StepAfter(step) ==
    CASE step = "wipe" -> "partition"
      [] step = "partition" -> "partprobe"
      [] step = "partprobe" -> "luksFormat"
      [] step = "luksFormat" -> "luksOpen"
      [] step = "luksOpen" -> "mkfsEfi"
      [] step = "mkfsEfi" -> "mkfsBtrfs"
      [] step = "mkfsBtrfs" -> "mountRaw"
      [] step = "mountRaw" -> "subvolCreate"
      [] step = "subvolCreate" -> "umount"
      [] step = "umount" -> "remountRoot"
      [] step = "subvolMkdir" -> "subvolMount"
      [] step = "subvolMount" -> "efiMkdir"
      [] step = "efiMkdir" -> "efiMount"
      [] step = "efiMount" -> "done"

\* Variant: the wipe command is issued whatever the wipe flag says.
Validate_AlwaysWipe ==
    /\ pc = "validate"
    /\ IF ~config.hasDisk THEN
           /\ pc' = "done"
           /\ outcome' = RaisedTo(ConfigError("Configuration requires at least one disk."))
       ELSE IF ~ValidationOk(config) THEN
           /\ pc' = "done"
           /\ outcome' = RaisedTo(ConfigError("Disk config is incomplete for LUKS+BTRFS setup."))
       ELSE IF ~PasswordOk(dry_run) THEN
           /\ pc' = "done"
           /\ outcome' = RaisedTo(ConfigError("LUKS password is required for non-interactive setup."))
       ELSE
           /\ pc' = "wipe"
           /\ UNCHANGED outcome
    /\ UNCHANGED <<config, dry_run, todo, idx, calls, caught, cleanups, inflight>>
    /\ UNCHANGED directVars

Validate ==
    /\ pc = "validate"
    /\ IF ~config.hasDisk THEN
           /\ pc' = "done"
           /\ outcome' = RaisedTo(ConfigError("Configuration requires at least one disk."))
       ELSE IF ~ValidationOk(config) THEN
           /\ pc' = "done"
           /\ outcome' = RaisedTo(ConfigError("Disk config is incomplete for LUKS+BTRFS setup."))
       ELSE IF ~PasswordOk(dry_run) THEN
           /\ pc' = "done"
           /\ outcome' = RaisedTo(ConfigError("LUKS password is required for non-interactive setup."))
       ELSE
           /\ pc' = IF config.wipe THEN "wipe" ELSE "partition"
           /\ UNCHANGED outcome
    /\ UNCHANGED <<config, dry_run, todo, idx, calls, caught, cleanups, inflight>>
    /\ UNCHANGED directVars

Wipe ==
    /\ pc = "wipe"
    /\ Step("wipe", WipeDescription(config),
            WipeCommand(config), TRUE, StepAfter("wipe"))
    /\ UNCHANGED <<config, dry_run, todo, idx>>
    /\ UNCHANGED directVars

CreatePartitions ==
    /\ pc = "partition"
    /\ Step("partition", PartitionDescription,
            PartitionCommand(config), TRUE, StepAfter("partition"))
    /\ UNCHANGED <<config, dry_run, todo, idx>>
    /\ UNCHANGED directVars

Partprobe ==
    /\ pc = "partprobe"
    /\ Step("partprobe", PartprobeDescription,
            PartprobeCommand(config), TRUE, StepAfter("partprobe"))
    /\ UNCHANGED <<config, dry_run, todo, idx>>
    /\ UNCHANGED directVars

LuksFormat ==
    /\ pc = "luksFormat"
    /\ Step("luksFormat", LuksFormatDescription(config),
            luks_format_command(config), FALSE, StepAfter("luksFormat"))
    /\ UNCHANGED <<config, dry_run, todo, idx>>
    /\ UNCHANGED directVars

LuksOpen ==
    /\ pc = "luksOpen"
    /\ Step("luksOpen", LuksOpenDescription(config),
            luks_open_command(config), FALSE, StepAfter("luksOpen"))
    /\ UNCHANGED <<config, dry_run, todo, idx>>
    /\ UNCHANGED directVars

MkfsEfi ==
    /\ pc = "mkfsEfi"
    /\ Step("mkfsEfi", MkfsEfiDescription(config),
            MkfsEfiCommand(config), TRUE, StepAfter("mkfsEfi"))
    /\ UNCHANGED <<config, dry_run, todo, idx>>
    /\ UNCHANGED directVars

MkfsBtrfs ==
    /\ pc = "mkfsBtrfs"
    /\ Step("mkfsBtrfs", MkfsBtrfsDescription(config),
            MkfsBtrfsCommand(config), TRUE, StepAfter("mkfsBtrfs"))
    /\ UNCHANGED <<config, dry_run, todo, idx>>
    /\ UNCHANGED directVars

MountRaw ==
    /\ pc = "mountRaw"
    /\ Step("mountRaw", MountRawDescription(config),
            MountRawCommand(config), TRUE, StepAfter("mountRaw"))
    /\ todo' = IF Succeeded THEN subvolumes_to_create(config) ELSE todo
    /\ UNCHANGED <<config, dry_run, idx>>
    /\ UNCHANGED directVars

\* for name in set(subvolumes_to_create): the set's order is not defined.
SubvolCreate ==
    /\ pc = "subvolCreate"
    /\ \E name \in todo :
        /\ Step("subvolCreate", SubvolCreateDescription(name),
            SubvolCreateCommand(name), TRUE,
                IF todo = {name} THEN StepAfter("subvolCreate") ELSE "subvolCreate")
        /\ todo' = IF Succeeded THEN todo \ {name} ELSE todo
    /\ UNCHANGED <<config, dry_run, idx>>
    /\ UNCHANGED directVars

Umount ==
    /\ pc = "umount"
    /\ Step("umount", UmountDescription,
            UmountCommand, TRUE, StepAfter("umount"))
    /\ UNCHANGED <<config, dry_run, todo, idx>>
    /\ UNCHANGED directVars

AfterLoopIdx(cfg, i) ==
    IF i > Len(root_config(cfg).btrfssubvolumes.list) THEN StepAfter("subvolMount")
    ELSE "subvolMkdir"

RemountRoot ==
    /\ pc = "remountRoot"
    /\ Step("remountRoot", RemountRootDescription(config),
            RemountRootCommand(config), TRUE,
            AfterLoopIdx(config, NextMountIdx(config, 1)))
    /\ idx' = IF Succeeded THEN NextMountIdx(config, 1) ELSE idx
    /\ UNCHANGED <<config, dry_run, todo>>
    /\ UNCHANGED directVars

SubvolMkdir ==
    /\ pc = "subvolMkdir"
    /\ Step("subvolMkdir", SubvolMkdirDescription(config, idx),
            SubvolMkdirCommand(config, idx), TRUE, StepAfter("subvolMkdir"))
    /\ UNCHANGED <<config, dry_run, todo, idx>>
    /\ UNCHANGED directVars

SubvolMount ==
    /\ pc = "subvolMount"
    /\ Step("subvolMount", SubvolMountDescription(config, idx),
            SubvolMountCommand(config, idx), TRUE,
            AfterLoopIdx(config, NextMountIdx(config, idx + 1)))
    /\ idx' = IF Succeeded THEN NextMountIdx(config, idx + 1) ELSE idx
    /\ UNCHANGED <<config, dry_run, todo>>
    /\ UNCHANGED directVars

EfiMkdir ==
    /\ pc = "efiMkdir"
    /\ Step("efiMkdir", EfiMkdirDescription(config),
            EfiMkdirCommand(config), TRUE, StepAfter("efiMkdir"))
    /\ UNCHANGED <<config, dry_run, todo, idx>>
    /\ UNCHANGED directVars

EfiMount ==
    /\ pc = "efiMount"
    /\ Step("efiMount", EfiMountDescription(config),
            EfiMountCommand(config), TRUE, StepAfter("efiMount"))
    /\ UNCHANGED <<config, dry_run, todo, idx>>
    /\ UNCHANGED directVars

(***************************************************************************)
(* cleanup_mounts (disk.py 252-262), then the bare `raise` of line 246.    *)
(***************************************************************************)
CleanupStep(step, description, command, next) ==
    IF ~Launched(Len(calls) + 1) THEN
        /\ inflight' = Launch(inflight, Len(calls) + 1, command)
        /\ UNCHANGED <<calls, pc, outcome, caught, cleanups>>
    ELSE
        /\ [n |-> Len(calls) + 1, command |-> command] \in inflight
        /\ inflight' = Reap(inflight, Len(calls) + 1)
        /\ \E env \in (IF dry_run THEN {EnvOk} ELSE CleanupEnvs) :
            LET r == run(command, FALSE, dry_run, TRUE, {}, FALSE, FALSE, env) IN
            /\ calls' = Append(calls, Call(step, description, command, TRUE, FALSE, r))
            /\ IF r.raised /\ ~CaughtByCleanup(r.err) THEN
                   \* the cleanup's own error leaves prepare_disk
                   /\ pc' = "done"
                   /\ outcome' = RaisedTo(r.err)
               ELSE IF r.raised \/ next = "done" THEN
                   \* cleanup_mounts returns; prepare_disk re-raises what it caught
                   /\ pc' = "done"
                   /\ outcome' = RaisedTo(caught)
               ELSE
                   /\ pc' = next
                   /\ UNCHANGED outcome
            /\ UNCHANGED <<caught, cleanups>>

CleanupUmount ==
    /\ pc = "cleanup_umount"
    /\ CleanupStep("cleanup_umount", CleanupUmountDescription, CleanupUmountCommand, "cleanup_close")
    /\ UNCHANGED <<config, dry_run, todo, idx>>
    /\ UNCHANGED directVars

CleanupClose ==
    /\ pc = "cleanup_close"
    /\ CleanupStep("cleanup_close", CleanupCloseDescription, CleanupCloseCommand, "done")
    /\ UNCHANGED <<config, dry_run, todo, idx>>
    /\ UNCHANGED directVars

(***************************************************************************)
(* The plans the model runs prepare_disk on.                               *)
(***************************************************************************)
StdSubvols == << <<"/">>, <<"/", "var">> >>
RootOnly == << <<"/">> >>

EfiPartition(n, path) ==
    Partition(n, T("EFI"), T("EF00"), T("4G"), path, "vfat", FALSE, NoneT, NoneT, NoneT, NoList)

RootPartition(n, cryptname, cryptlabel, btrfsoptions, subvols) ==
    Partition(n, T("ROOT"), T("8304"), T("10G"), T("/"), "btrfs", TRUE, cryptname, cryptlabel,
              btrfsoptions, subvols)

PartitionKinds == {"efi", "root", "plainbtrfs", "cryptext4"}

PartitionOfKind(kind, n) ==
    CASE kind = "efi" -> EfiPartition(n, <<"/", "efi">>)
      [] kind = "root" -> RootPartition(n, NoneT, NoneT, NoneT, SomeList(RootOnly))
      [] kind = "plainbtrfs" ->
            Partition(n, T("DATA"), T("8300"), T("1G"), NoneT, "btrfs", FALSE, NoneT, NoneT,
                      NoneT, SomeList(RootOnly))
      [] OTHER ->
            Partition(n, T("HOME"), T("8309"), T("1G"), NoneT, "ext4", TRUE, NoneT, NoneT,
                      NoneT, NoList)

\* Partition lists of every length up to MaxParts, numbered by position.
PartitionLists ==
    UNION { { [i \in 1..n |-> PartitionOfKind(kinds[i], i)] : kinds \in [1..n -> PartitionKinds] }
            : n \in 1..MaxParts }

RawSubvolumes == { <<"/">>, <<"/", "var">>, <<"@", "/", "mnt">> }

\* Lists with a subvolume nested in another, in both orders.
NestedSubvolumeLists ==
    { << <<"/", "var">>, <<"/", "var", "/", "log">> >>,
      << <<"/", "var", "/", "log">>, <<"/", "var">> >>,
      << <<"/", "var", "/", "log">> >> }

\* Lists with a blank name and with an empty one.
BlankSubvolumeLists ==
    { << <<"/", SP, "/">> >>, << <<"/">>, <<"/", SP, "/">> >>,
      << <<SP>>, <<"/", "var">> >>, << <<>>, <<"/", "var">> >> }

\* A list whose cleaned name is an absolute path: '@/var' cleans to '/var'.
AbsoluteSubvolumeLists == { << <<"@", "/", "var">> >> }

SubvolumeLists == UNION { [1..n -> RawSubvolumes] : n \in 0..MaxSubvols }

PlanFamily ==
    { Config(TRUE, TRUE, parts) : parts \in PartitionLists }
    \cup { Config(FALSE, TRUE, <<>>) }

SubvolumeFamily ==
    { Config(TRUE, FALSE, <<EfiPartition(1, <<"/", "efi">>),
                            RootPartition(2, NoneT, NoneT, NoneT, sv)>>)
      : sv \in {SomeList(l) : l \in SubvolumeLists \cup NestedSubvolumeLists
                                   \cup BlankSubvolumeLists
                                   \cup AbsoluteSubvolumeLists} \cup {NoList} }

VariantFamily ==
    { Config(TRUE, wipe, <<EfiPartition(1, path),
                           RootPartition(2, cryptname, cryptlabel, options,
                                         SomeList(StdSubvols))>>)
      : wipe \in BOOLEAN, path \in {<<"/", "efi">>, NoneT},
        cryptname \in {NoneT, T("cryptroot")}, cryptlabel \in {NoneT, T("CRYPT")},
        options \in {NoneT, T("noatime")} }

\* The plan on /dev/sdb with an EFI partition mounted at /efi and an encrypted
\* BTRFS root with the subvolumes "/", "/var" and "/.snapshots".
ScenarioSubvols == << <<"/">>, <<"/", "var">>, <<"/", ".snapshots">> >>
ScenarioPlan(wipe) ==
    Config(TRUE, wipe, <<EfiPartition(1, <<"/", "efi">>),
                         RootPartition(2, NoneT, NoneT, NoneT, SomeList(ScenarioSubvols))>>)
ScenarioFamily == {ScenarioPlan(wipe) : wipe \in BOOLEAN}

Configs == PlanFamily \cup SubvolumeFamily \cup VariantFamily \cup ScenarioFamily

Init ==
    /\ config \in Configs
    /\ dry_run \in BOOLEAN
    /\ pc = "validate"
    /\ todo = {}
    /\ idx = 0
    /\ calls = <<>>
    /\ caught = NoErr
    /\ cleanups = 0
    /\ outcome = Running
    /\ inflight = {}
    /\ xcall = XIdle
    /\ xres = XNoRes
    /\ raw = <<>>
    /\ norm = NoNorm
    /\ stepctx = StepIdle
    /\ log = <<>>
    /\ finished = <<>>

Next ==
    \/ Validate
    \/ Wipe
    \/ CreatePartitions
    \/ Partprobe
    \/ LuksFormat
    \/ LuksOpen
    \/ MkfsEfi
    \/ MkfsBtrfs
    \/ MountRaw
    \/ SubvolCreate
    \/ Umount
    \/ RemountRoot
    \/ SubvolMkdir
    \/ SubvolMount
    \/ EfiMkdir
    \/ EfiMount
    \/ CleanupUmount
    \/ CleanupClose

Spec == Init /\ [][Next]_vars

\* Direct Executor calls, no provisioning run.
ExecInit ==
    /\ config = Config(FALSE, FALSE, <<>>)
    /\ dry_run = TRUE
    /\ pc = "idle"
    /\ todo = {}
    /\ idx = 0
    /\ calls = <<>>
    /\ caught = NoErr
    /\ cleanups = 0
    /\ outcome = Running
    /\ inflight = {}
    /\ xcall \in XCalls
    /\ xres = XNoRes
    /\ raw = <<>>
    /\ norm = NoNorm
    /\ stepctx = StepIdle
    /\ log = <<>>
    /\ finished = <<>>

ExecNext == PrepareCommandCall \/ ExecuteCommandCall \/ RunCall

ExecSpec == ExecInit /\ [][ExecNext]_vars

\* The normalization applied to one raw name, then to the identifier it gave.
NameSymbols == {"/", "@", SP, "var"}
RawNames == UNION { [1..n -> NameSymbols] : n \in 0..MaxNameLen }

Normalize ==
    /\ pc = "idle" /\ xcall = XIdle /\ ~norm.done
    /\ norm' = [done |-> TRUE, name |-> NormName(raw), path |-> NormPath(raw),
                name2 |-> NormName(NormName(raw)), path2 |-> NormPath(NormName(raw))]
    /\ UNCHANGED <<diskVars, execVars, raw, logVars>>

NormInit ==
    /\ config = Config(FALSE, FALSE, <<>>)
    /\ dry_run = TRUE
    /\ pc = "idle"
    /\ todo = {}
    /\ idx = 0
    /\ calls = <<>>
    /\ caught = NoErr
    /\ cleanups = 0
    /\ outcome = Running
    /\ inflight = {}
    /\ xcall = XIdle
    /\ xres = XNoRes
    /\ raw \in RawNames
    /\ norm = NoNorm
    /\ stepctx = StepIdle
    /\ log = <<>>
    /\ finished = <<>>

NormNext == Normalize

NormSpec == NormInit /\ [][NormNext]_vars

\* Execution steps entered one after the other, no provisioning run.
LogInit ==
    /\ config = Config(FALSE, FALSE, <<>>)
    /\ dry_run = TRUE
    /\ pc = "idle"
    /\ todo = {}
    /\ idx = 0
    /\ calls = <<>>
    /\ caught = NoErr
    /\ cleanups = 0
    /\ outcome = Running
    /\ inflight = {}
    /\ xcall = XIdle
    /\ xres = XNoRes
    /\ raw = <<>>
    /\ norm = NoNorm
    /\ stepctx = StepIdle
    /\ log = <<>>
    /\ finished = <<>>

LogNext == EnterStep \/ BodyReturns \/ BodyRaises \/ CompleteStep \/ FailStep \/ Reraise

LogSpec == LogInit /\ [][LogNext]_vars

\* Direct calls of DiskManager.format_partition, no provisioning run.
FormatInit ==
    /\ config = Config(FALSE, FALSE, <<>>)
    /\ dry_run = TRUE
    /\ pc = "idle"
    /\ todo = {}
    /\ idx = 0
    /\ calls = <<>>
    /\ caught = NoErr
    /\ cleanups = 0
    /\ outcome = Running
    /\ inflight = {}
    /\ xcall \in FormatCalls
    /\ xres = XNoRes
    /\ raw = <<>>
    /\ norm = NoNorm
    /\ stepctx = StepIdle
    /\ log = <<>>
    /\ finished = <<>>

FormatNext == FormatPartitionCall

FormatSpec == FormatInit /\ [][FormatNext]_vars

(***************************************************************************)
(* Reading the run back from the calls that were recorded.                 *)
(***************************************************************************)
KindAt(i) == calls[i].kind
IsCleanupCall(i) == KindAt(i) \in CleanupSteps
Ok(i) == ~calls[i].res.raised
\* The target of a mount command: its last word.
IsMount(i) == KindAt(i) \in {"mountRaw", "remountRoot", "mountSubvol", "mountEfi"}
MountTarget(i) == WordsOf(calls[i].command)[Len(WordsOf(calls[i].command))]
CarriesSubvolOption(i) ==
    /\ IsMount(i)
    /\ \E k \in 1..Len(WordsOf(calls[i].command)) :
           HasSymbol(WordsOf(calls[i].command)[k], ",subvol=")

\* The provisioning commands that failed.
Failures == {i \in 1..Len(calls) : ~IsCleanupCall(i) /\ ~Ok(i)}

(***************************************************************************)
(* C1 -- error path of prepare_disk.                                       *)
(***************************************************************************)
\* C1: once a command of the provisioning sequence has failed,
\* cleanup_mounts has been invoked exactly once, the cleanup's first command
\* is what follows the failing command, and when prepare_disk is over it has
\* raised exactly the error the failing executor.run call raised (same kind,
\* message, command and exit code), never one of the cleanup's errors;
\* prepare_disk ends only by returning or raising.
C1_CleanupOnceThenOriginalError ==
    /\ outcome.state \in {"running", "returned", "raised"}
    /\ Cardinality(Failures) <= 1
    /\ Failures = {} => cleanups = 0
    /\ \A f \in Failures :
        /\ cleanups = 1
        /\ pc \in {"cleanup_umount", "cleanup_close", "done"}
        /\ pc = "done" =>
            /\ outcome = RaisedTo(calls[f].res.err)
            /\ Len(calls) > f
            /\ KindAt(f + 1) = "cleanup_umount"
        /\ pc # "done" => outcome = Running

\* A failure at the EFI mkfs, a cleanup whose own commands fail too, and the
\* original error raised.
C1_Witness ==
    /\ pc = "done"
    /\ \E f \in Failures : KindAt(f) = "mkfsEfi"
    /\ \E j \in 1..Len(calls) : IsCleanupCall(j) /\ ~Ok(j)
    /\ outcome.state = "raised"
    /\ outcome.err.kind = "CommandTimeoutError"

(***************************************************************************)
(* C2 -- order of the commands.                                            *)
(***************************************************************************)
Succession ==
    { <<"wipe", "partition">>, <<"partition", "partprobe">>, <<"partprobe", "luksFormat">>,
      <<"luksFormat", "luksOpen">>, <<"luksOpen", "mkfsEfi">>, <<"mkfsEfi", "mkfsBtrfs">>,
      <<"mkfsBtrfs", "mountRaw">>, <<"mountRaw", "subvolCreate">>,
      <<"subvolCreate", "subvolCreate">>, <<"subvolCreate", "umount">>,
      <<"umount", "remountRoot">>, <<"remountRoot", "mkdir">>, <<"mkdir", "mountSubvol">>,
      <<"mountSubvol", "mkdir">>, <<"mkdir", "mountEfi">> }

\* C2: the provisioning commands are issued in the order wipe (only when
\* configured), partition creation, partprobe, LUKS format, LUKS open, EFI
\* mkfs, BTRFS mkfs, raw mount, subvolume creations, umount, root remount,
\* mkdir/mount pairs, EFI mkdir and EFI mount; each is issued only after
\* every earlier command returned successfully; a run that returns has
\* issued them all, the EFI mount last.
C2_CommandOrder ==
    /\ \A i \in 1..Len(calls) : ~IsCleanupCall(i) =>
        /\ \A j \in 1..(i - 1) : Ok(j)
        /\ i = 1 => KindAt(1) = (IF config.wipe THEN "wipe" ELSE "partition")
        /\ i > 1 => <<KindAt(i - 1), KindAt(i)>> \in Succession
    /\ outcome.state = "returned" =>
        /\ calls # <<>>
        /\ KindAt(Len(calls)) = "mountEfi"
        /\ Len(calls) > 1 /\ KindAt(Len(calls) - 1) = "mkdir"
        /\ \A i \in 1..(Len(calls) - 1) : KindAt(i) # "mountEfi"

\* A real run that went through every command, with at least one
\* subvolume mount, and returned.
C2_Witness ==
    /\ outcome.state = "returned"
    /\ ~dry_run
    /\ config.wipe
    /\ \E i \in 1..Len(calls) : KindAt(i) = "mountSubvol"

(***************************************************************************)
(* C3 -- the two-phase BTRFS mount.                                        *)
(***************************************************************************)
\* C3: every `btrfs subvolume create` is issued after the raw mount at /mnt
\* succeeded and before `umount /mnt` is issued; no mount with a subvol=
\* option is issued before that umount succeeded; /mnt is never mounted a
\* second time without a successful unmount in between.
C3_TwoPhaseMount ==
    \A i \in 1..Len(calls) :
        /\ KindAt(i) = "subvolCreate" =>
            /\ \E j \in 1..(i - 1) : KindAt(j) = "mountRaw" /\ Ok(j)
            /\ \A j \in 1..(i - 1) : KindAt(j) # "umount"
        /\ CarriesSubvolOption(i) => \E j \in 1..(i - 1) : KindAt(j) = "umount" /\ Ok(j)
        /\ (IsMount(i) /\ MountTarget(i) = MNT) =>
            \A j \in 1..(i - 1) : (IsMount(j) /\ MountTarget(j) = MNT /\ Ok(j)) =>
                \E k \in (j + 1)..(i - 1) : KindAt(k) = "umount" /\ Ok(k)

(***************************************************************************)
(* C4, C5, C6 -- validation.                                               *)
(***************************************************************************)
NumEfi(cfg) ==
    Cardinality({i \in DOMAIN cfg.partition : cfg.partition[i].filesystem \in {"fat32", "vfat"}})
EncryptedBtrfs(cfg) ==
    {i \in DOMAIN cfg.partition :
        cfg.partition[i].crypt /\ cfg.partition[i].filesystem = "btrfs"}
NumRoot(cfg) == Cardinality(EncryptedBtrfs(cfg))
RootsHaveSubvolumes(cfg) ==
    \A i \in EncryptedBtrfs(cfg) :
        ~cfg.partition[i].btrfssubvolumes.none /\ cfg.partition[i].btrfssubvolumes.list # <<>>
IsConfigError == outcome.state = "raised" /\ outcome.err.kind = "ValueError"

\* C4: a plan with no disk, no EFI partition, no encrypted BTRFS root or no
\* subvolumes ends in a configuration error, and a run that ends in a
\* configuration error has issued no command at all.
C4_NoCommandOnInvalidPlan ==
    /\ (~config.hasDisk \/ NumEfi(config) = 0 \/ NumRoot(config) = 0
        \/ ~RootsHaveSubvolumes(config)) =>
            /\ calls = <<>>
            /\ pc \in {"validate", "done"}
            /\ pc = "done" => IsConfigError
    /\ IsConfigError => calls = <<>>

\* A real run on a plan with a disk, an EFI partition and a root without
\* subvolumes was rejected.
C4_Witness ==
    /\ pc = "done" /\ IsConfigError /\ ~dry_run
    /\ config.hasDisk /\ NumEfi(config) = 1 /\ NumRoot(config) = 1
    /\ ~RootsHaveSubvolumes(config)

\* C5: validation fails when the number of fat32/vfat partitions is not one,
\* and succeeds when it is one and the other invariants hold.
C5_ExactlyOneEfi ==
    (pc # "validate" /\ config.hasDisk) =>
        /\ NumEfi(config) # 1 => IsConfigError
        /\ (NumEfi(config) = 1 /\ NumRoot(config) = 1 /\ RootsHaveSubvolumes(config))
               => ~IsConfigError

\* C6: validation fails when the number of encrypted btrfs partitions is not
\* one, and succeeds when it is one and the other invariants hold.
C6_ExactlyOneEncryptedBtrfs ==
    (pc # "validate" /\ config.hasDisk) =>
        /\ NumRoot(config) # 1 => IsConfigError
        /\ (NumRoot(config) = 1 /\ NumEfi(config) = 1 /\ RootsHaveSubvolumes(config))
               => ~IsConfigError

(***************************************************************************)
(* C7 -- the passphrase.                                                   *)
(***************************************************************************)
\* C7: the command prepare_disk hands to the executor for the LUKS format
\* and LUKS open steps does not contain the passphrase, neither in the
\* command string nor in the argument list the executor makes of it.
C7_PassphraseNotInCommand ==
    \A i \in 1..Len(calls) :
        KindAt(i) \in {"luksFormat", "luksOpen"} =>
            /\ ~Contains(CmdString(calls[i].command), luks_password)
            /\ ~HasWord(calls[i].command, luks_password)
            /\ \A k \in 1..Len(calls[i].res.spawns) :
                   ~HasWord(calls[i].res.spawns[k].cmd, luks_password)

(***************************************************************************)
(* C8, C9, C10 -- the errors of execute_command.                           *)
(***************************************************************************)
XStdout == IF xcall.capture_output THEN xcall.env.out ELSE ""
XStderr == IF xcall.capture_output THEN xcall.env.err ELSE ""
\* execute_command ran a process and it exited non-zero, check set.
XNonZeroExit ==
    /\ xcall.op = "execute_command" /\ xcall.done /\ xcall.check
    /\ xres.spawns # <<>>
    /\ xcall.env.t = "exit" /\ xcall.env.rc # 0
XNotFoundCase ==
    xcall.env.rc = 127 \/ "command not found" \in StderrPhrases(XStderr)
XPermissionCase ==
    xcall.env.rc = 126 \/ "permission denied" \in StderrPhrases(XStderr)
XNoSuchFile == "no such file or directory" \in StderrPhrases(XStderr)

\* C8: with check set, a non-zero exit with code 127 or "command not found"
\* in stderr reaches the caller as CommandNotFoundError (127), one with code
\* 126 or "permission denied" in stderr as PermissionDeniedError (126).
C8_SpecificErrorKind ==
    XNonZeroExit =>
        /\ XNotFoundCase =>
            /\ xres.raised /\ xres.err.kind = "CommandNotFoundError"
            /\ xres.err.exit_code = 127
        /\ (XPermissionCase /\ ~XNotFoundCase /\ ~XNoSuchFile) =>
            /\ xres.raised /\ xres.err.kind = "PermissionDeniedError"
            /\ xres.err.exit_code = 126

\* C9: with check set, a non-zero exit that matches no specific kind reaches
\* the caller as a ShellCommandError carrying the command string, the
\* process's exit code and the captured stdout and stderr.
C9_GenericErrorCarriesExit ==
    (XNonZeroExit /\ ~XNotFoundCase /\ ~XPermissionCase /\ ~XNoSuchFile) =>
        /\ xres.raised
        /\ xres.err.kind = "ShellCommandError"
        /\ xres.err.command = CmdString(xcall.command)
        /\ xres.err.exit_code = xcall.env.rc
        /\ xres.err.stdout = XStdout
        /\ xres.err.stderr = XStderr

\* C10: when subprocess.run is reached and the timeout expires, the caller
\* gets CommandTimeoutError; when the binary cannot be spawned, the caller
\* gets CommandNotFoundError; in both cases subprocess.run was called once.
C10_TimeoutAndSpawnFailure ==
    (xcall.op = "execute_command" /\ xcall.done /\ xres.spawns # <<>>) =>
        /\ xcall.env.t = "TimeoutExpired" =>
            xres.raised /\ xres.err.kind = "CommandTimeoutError"
        /\ xcall.env.t = "FileNotFoundError" =>
            xres.raised /\ xres.err.kind = "CommandNotFoundError"
        /\ xcall.env.t \in {"TimeoutExpired", "FileNotFoundError"} => Len(xres.spawns) = 1

\* A timeout that reached the caller as CommandTimeoutError.
C10_Witness ==
    /\ xcall.op = "execute_command" /\ xcall.done
    /\ xcall.env.t = "TimeoutExpired"
    /\ xres.raised /\ xres.err.kind = "CommandTimeoutError"
    /\ Len(xres.spawns) = 1

(***************************************************************************)
(* C11 -- cleanup_mounts never raises.                                     *)
(***************************************************************************)
\* C11: whatever its two commands do (non-zero exit, timeout, missing
\* binary, invalid command, any other exception of executor.run),
\* cleanup_mounts returns normally: a non-zero exit is returned without an
\* error, an error raised by one of its commands is one its except clause
\* catches, and prepare_disk then goes on to its own `raise` of the error it
\* had caught, never the cleanup's.
C11_CleanupNeverRaises ==
    \A j \in 1..Len(calls) : IsCleanupCall(j) =>
        /\ calls[j].res.ret[1] # 0 => Ok(j)
        /\ ~Ok(j) =>
            /\ CaughtByCleanup(calls[j].res.err)
            /\ pc = "done"
            /\ outcome.err # calls[j].res.err
        /\ pc = "done" => outcome = RaisedTo(caught)

\* A cleanup whose unmount exited non-zero and whose LUKS close was an
\* invalid command, after which prepare_disk raised what it had caught.
C11_Witness ==
    /\ pc = "done"
    /\ \E j \in 1..Len(calls) :
           KindAt(j) = "cleanup_umount" /\ Ok(j) /\ calls[j].res.ret[1] = 5
    /\ \E k \in 1..Len(calls) :
           KindAt(k) = "cleanup_close" /\ calls[k].res.err.kind = "InvalidCommandError"
    /\ outcome = RaisedTo(caught)

(***************************************************************************)
(* C12 -- no step after a failure, no retry.                               *)
(***************************************************************************)
\* C12: once a provisioning command has failed, prepare_disk is in its
\* cleanup or over, every later command is the cleanup's recursive unmount
\* followed by its LUKS close (each at most once), and no provisioning
\* command is issued again.
C12_StopsAfterFailure ==
    \A f \in Failures :
        /\ pc \in {"cleanup_umount", "cleanup_close", "done"}
        /\ Len(calls) <= f + 2
        /\ Len(calls) >= f + 1 =>
               KindAt(f + 1) = "cleanup_umount" /\ calls[f + 1].command = CleanupUmountCommand
        /\ Len(calls) >= f + 2 =>
               KindAt(f + 2) = "cleanup_close" /\ calls[f + 2].command = CleanupCloseCommand
        /\ \A j \in (f + 1)..Len(calls) : calls[j].step \in CleanupSteps

\* The BTRFS mkfs failed, both cleanup commands followed, nothing else.
C12_Witness ==
    /\ pc = "done"
    /\ \E f \in Failures : KindAt(f) = "mkfsBtrfs" /\ Len(calls) = f + 2

(***************************************************************************)
(* C13, C14 -- Executor.run in dry-run.                                    *)
(***************************************************************************)
\* A command _prepare_command accepts: not empty, and, when a string, one
\* whose quotes are balanced.
WellFormed(c) == ~CmdFalsy(c) /\ (c.isList \/ shlex_split(c.str).ok)

\* C13: for a well-formed command, run with dryrun=True returns
\* (0, 'DRY_RUN_STDOUT', 'DRY_RUN_STDERR'), hands nothing to execute_command
\* and spawns no process, whatever chroot, shell, check and timeout are.
C13_DryRunFixedResult ==
    (xcall.op = "run" /\ xcall.done /\ xcall.dryrun /\ WellFormed(xcall.command)) =>
        /\ ~xres.raised
        /\ xres.ret = <<0, "DRY_RUN_STDOUT", "DRY_RUN_STDERR">>
        /\ xres.passed = <<>>
        /\ xres.spawns = <<>>

\* A dry run with chroot, shell, check and a timeout set, in an environment
\* where the process would have timed out.
C13_Witness ==
    /\ xcall.op = "run" /\ xcall.done /\ xcall.dryrun
    /\ xcall.chroot /\ xcall.shell /\ xcall.check /\ xcall.timeout = {5}
    /\ xcall.command = StrCmd(<<"my_command", SP, "--arg">>)
    /\ xcall.env.t = "TimeoutExpired"
    /\ xres.ret = <<0, "DRY_RUN_STDOUT", "DRY_RUN_STDERR">>

\* C14: run on the empty string raises InvalidCommandError, with
\* dryrun=True as with dryrun=False: no result is returned, nothing is
\* handed to execute_command and nothing is spawned.
C14_EmptyCommandRejected ==
    (xcall.op = "run" /\ xcall.done /\ xcall.command = StrCmd(<<>>)) =>
        /\ xres.raised
        /\ xres.err.kind = "InvalidCommandError"
        /\ xres.passed = <<>>
        /\ xres.spawns = <<>>

\* run('', dryrun=True) raised InvalidCommandError.
C14_Witness ==
    /\ xcall.op = "run" /\ xcall.done /\ xcall.dryrun
    /\ xcall.command = StrCmd(<<>>)
    /\ xres.raised /\ xres.err.kind = "InvalidCommandError"

(***************************************************************************)
(* C15 -- the chroot prefix.                                               *)
(***************************************************************************)
\* C15: what run hands to execute_command is, word for word, the original
\* arguments (a string tokenized, a list verbatim), preceded by
\* 'arch-chroot' and the chroot path when chroot=True and by nothing when
\* chroot=False.
C15_ChrootPrefix ==
    (xcall.op = "run" /\ xcall.done /\ xres.passed # <<>>) =>
        WordsOf(xres.passed[1]) =
            (IF xcall.chroot THEN <<T("arch-chroot"), chroot_path>> ELSE <<>>)
            \o WordsOf(xcall.command)

(***************************************************************************)
(* C16 -- the subvolume-creation phase.                                    *)
(***************************************************************************)
Creates == {i \in 1..Len(calls) : KindAt(i) = "subvolCreate"}
CreatedPath(i) == WordsOf(calls[i].command)[4]

\* C16: in every run that gets to the unmount the root subvolume /mnt/@ has
\* been created; the first subvolume created is /mnt/@; and no subvolume
\* path is created twice.
C16_RootFirstEachOnce ==
    /\ (\E u \in 1..Len(calls) : KindAt(u) = "umount") =>
           \E i \in Creates : CreatedPath(i) = MNT \o <<"/", "@">>
    /\ \A i \in Creates :
           (\A j \in Creates : j >= i) => CreatedPath(i) = MNT \o <<"/", "@">>
    /\ \A i, j \in Creates : i # j => CreatedPath(i) # CreatedPath(j)

(***************************************************************************)
(* C17 -- the normalization of a subvolume name.                           *)
(***************************************************************************)
\* C17: the normalization gives an identifier and a mount path for every
\* raw name, and normalizing the identifier it gave returns the same
\* identifier and the same mount path.
C17_NormalizationIdempotent ==
    norm.done =>
        /\ Len(norm.name) >= 1 /\ norm.name[1] = "@"
        /\ Len(norm.path) >= 1 /\ norm.path[1] = "/"
        /\ norm.name2 = norm.name
        /\ norm.path2 = norm.path

\* '/@var' normalized to '@var' and '/mnt/var'.
C17_Witness ==
    /\ norm.done
    /\ raw = <<"/", "@", "var">>
    /\ norm.name = <<"@", "var">>
    /\ norm.path = <<"/", "mnt", "/", "var">>

(***************************************************************************)
(* C18 -- paths that normalize to the root.                                *)
(***************************************************************************)
RootMounts == {i \in 1..Len(calls) : KindAt(i) = "remountRoot"}
ListedSubvolumes == root_config(config).btrfssubvolumes.list
NotRootEntries == {k \in DOMAIN ListedSubvolumes : NormName(ListedSubvolumes[k]) # <<"@">>}

\* C18: '/' normalizes to '@' and to the mount root; a mount with subvol=@
\* is issued at most once in a run, on /mnt, and exactly once in a run that
\* returns; the remount loop issues no more mkdir and no more mount commands
\* than there are listed paths that do not normalize to the root.
C18_RootMountedOnce ==
    /\ NormName(<<"/">>) = <<"@">> /\ NormPath(<<"/">>) = MNT
    /\ Cardinality(RootMounts) <= 1
    /\ \A i \in RootMounts : MountTarget(i) = MNT
    /\ outcome.state = "returned" => Cardinality(RootMounts) = 1
    /\ Cardinality({i \in 1..Len(calls) : calls[i].step = "subvolMkdir"})
           <= Cardinality(NotRootEntries)
    /\ Cardinality({i \in 1..Len(calls) : calls[i].step = "subvolMount"})
           <= Cardinality(NotRootEntries)

\* A real run on the list ['/', '/var'] that returned: one mkdir, one
\* subvolume mount, one root mount.
C18_Witness ==
    /\ outcome.state = "returned" /\ ~dry_run
    /\ ListedSubvolumes = << <<"/">>, <<"/", "var">> >>
    /\ Cardinality(RootMounts) = 1
    /\ Cardinality({i \in 1..Len(calls) : calls[i].step = "subvolMkdir"}) = 1

(***************************************************************************)
(* C19 -- the dry run of the plan on /dev/sdb.                             *)
(***************************************************************************)
Descriptions == [i \in 1..Len(calls) |-> calls[i].description]

\* The descriptions of a run on the plan with '/', '/var' and '/.snapshots',
\* the subvolumes taken root first and then as listed.
ScenarioDescriptions(cfg) ==
    (IF cfg.wipe THEN <<WipeDescription(cfg)>> ELSE <<>>)
    \o <<PartitionDescription, PartprobeDescription, LuksFormatDescription(cfg),
         LuksOpenDescription(cfg), MkfsEfiDescription(cfg), MkfsBtrfsDescription(cfg),
         MountRawDescription(cfg), SubvolCreateDescription(T("@")),
         SubvolCreateDescription(T("var")), SubvolCreateDescription(T(".snapshots")),
         UmountDescription, RemountRootDescription(cfg),
         SubvolMkdirDescription(cfg, 2), SubvolMountDescription(cfg, 2),
         SubvolMkdirDescription(cfg, 3), SubvolMountDescription(cfg, 3),
         EfiMkdirDescription(cfg), EfiMountDescription(cfg)>>

\* C19: a dry run on that plan ends without an error, after the commands of
\* every state, with one and the same list of descriptions in every run, the
\* last of them the EFI mount's; and a dry run raises no command error on
\* any plan.
C19_DryRunScenario ==
    /\ (dry_run /\ config \in ScenarioFamily /\ pc = "done") =>
           /\ outcome = ReturnedNormally
           /\ Descriptions = ScenarioDescriptions(config)
           /\ Descriptions[Len(calls)] = EfiMountDescription(config)
    /\ (dry_run /\ outcome.state = "raised") => outcome.err.kind \notin ShellCommandErrorKinds

(***************************************************************************)
(* C20 -- the remount phase.                                               *)
(***************************************************************************)
PlanOptions ==
    IF Falsy(root_config(config).btrfsoptions) THEN T("noatime,compress=zstd")
    ELSE root_config(config).btrfsoptions
MappedDevice ==
    <<"/", "dev", "/", "mapper", "/">>
    \o (IF Falsy(root_config(config).cryptname) THEN T("linuxroot")
        ELSE root_config(config).cryptname)

StepAt(i) == calls[i].step
\* text `t` starts with text `pre`
StartsWith(t, pre) == Len(t) >= Len(pre) /\ SubSeq(t, 1, Len(pre)) = pre

\* The k-th creation/type/name triple of an sgdisk word list is for partition p.
TripleFor(w, k, p) ==
    /\ StartsWith(w[3 * k - 1], <<"-n">> \o Num(p.number) \o <<":">>)
    /\ StartsWith(w[3 * k], <<"-t">> \o Num(p.number) \o <<":">>)
    /\ w[3 * k + 1] = <<"-c">> \o Num(p.number) \o <<":">> \o p.label

\* C21: partition creation is one sgdisk command: the word sgdisk, then for
\* each partition of the plan, in plan order, one -n/-t/-c triple carrying
\* that partition's number, then the device path, whatever the number of
\* partitions; the command is issued at most once, and when it succeeds the
\* next command is the one partition-table reread (partprobe), which is never
\* issued otherwise.
C21_SinglePartitionCommand ==
    \A i \in 1..Len(calls) :
        /\ StepAt(i) = "partition" =>
              LET w == calls[i].command.words
                  n == Len(config.partition)
              IN /\ calls[i].command.isList
                 /\ KindAt(i) = "partition"
                 /\ Len(w) = 3 * n + 2
                 /\ w[1] = T("sgdisk")
                 /\ \A k \in 1..n : TripleFor(w, k, config.partition[k])
                 /\ w[Len(w)] = config.path
                 /\ \A j \in 1..Len(calls) : StepAt(j) = "partition" => j = i
                 /\ (Ok(i) /\ i < Len(calls)) => KindAt(i + 1) = "partprobe"
                 /\ (Ok(i) /\ i = Len(calls)) => pc = "partprobe"
        /\ KindAt(i) = "partprobe" =>
              /\ i > 1 /\ StepAt(i - 1) = "partition" /\ Ok(i - 1)
              /\ \A j \in 1..Len(calls) : KindAt(j) = "partprobe" => j = i

\* A plan of three partitions whose partition table was created and reread.
C21_Witness ==
    /\ Len(config.partition) = 3
    /\ ~dry_run
    /\ \E i \in 1..Len(calls) : StepAt(i) = "partition" /\ Ok(i)
    /\ \E i \in 1..Len(calls) : KindAt(i) = "partprobe" /\ Ok(i)

(***************************************************************************)
(* The wipe flag.                                                          *)
(***************************************************************************)
\* C22: the wipe command (sgdisk -Z) is issued exactly when the plan's wipe
\* flag is true; when issued it is the first command of the run, so it comes
\* before partition creation.
C22_WipeIffFlag ==
    /\ \A i \in 1..Len(calls) : KindAt(i) = "wipe" => (i = 1 /\ config.wipe)
    /\ (config.wipe /\ calls # <<>>) => KindAt(1) = "wipe"
    /\ (config.wipe /\ pc \notin {"validate", "wipe"} /\ outcome.state # "raised")
          => (calls # <<>> /\ KindAt(1) = "wipe")
    /\ (~config.wipe /\ calls # <<>>) => KindAt(1) = "partition"

\* A wiping plan whose wipe succeeded and was followed by partition creation.
C22_Witness ==
    /\ ~dry_run /\ config.wipe
    /\ Len(calls) >= 2 /\ KindAt(1) = "wipe" /\ Ok(1) /\ KindAt(2) = "partition"

(***************************************************************************)
(* The EFI step.                                                           *)
(***************************************************************************)
\* A path at or below the mount root /mnt.
UnderMountRoot(t) == t = MNT \/ StartsWith(t, MNT \o <<"/">>)
\* The configured mount path of the EFI partition (nothing when absent).
EfiMountPath ==
    IF efi_config(config).path = NoneT THEN <<>> ELSE efi_config(config).path

\* C23: the EFI step closes the run: `mkdir -p <mount point>` with the mount
\* point under the mount root (the mount root followed by the EFI partition's
\* mount path), then `mount -o uid=0,gid=0,umask=077 <disk path><EFI number>
\* <mount point>`; no provisioning command follows, and a run that returns
\* ends with these two. Stated for every plan that passes validation, the
\* plan whose EFI partition has no mount path included.
C23_EfiStepLast ==
    /\ \A i \in 1..Len(calls) :
        LET w == WordsOf(calls[i].command) IN
        /\ StepAt(i) = "efiMkdir" =>
            /\ Len(w) = 3 /\ w[1] = T("mkdir") /\ w[2] = T("-p")
            /\ UnderMountRoot(w[3])
            /\ w[3] = MNT \o EfiMountPath
        /\ StepAt(i) = "efiMount" =>
            /\ i > 1 /\ StepAt(i - 1) = "efiMkdir" /\ Ok(i - 1)
            /\ w = <<T("mount"), T("-o"), T("uid=0,gid=0,umask=077"),
                     config.path \o Num(efi_config(config).number),
                     WordsOf(calls[i - 1].command)[3]>>
            /\ i < Len(calls) => IsCleanupCall(i + 1)
    /\ outcome.state = "returned" =>
        /\ Len(calls) >= 2
        /\ StepAt(Len(calls)) = "efiMount" /\ StepAt(Len(calls) - 1) = "efiMkdir"

(***************************************************************************)
(* Validation of the subvolume list.                                       *)
(***************************************************************************)
\* The subvolume list of the one encrypted BTRFS partition of a plan.
TheRootList(cfg) ==
    cfg.partition[CHOOSE i \in EncryptedBtrfs(cfg) : TRUE].btrfssubvolumes

\* C24: on a plan with a disk, one EFI partition and one encrypted BTRFS root,
\* an absent or empty subvolume list makes prepare_disk end in a configuration
\* error before any command, and a non-empty list lets the run go past
\* validation without a configuration error.
C24_SubvolumeListRequired ==
    (config.hasDisk /\ NumEfi(config) = 1 /\ NumRoot(config) = 1) =>
        IF TheRootList(config).none \/ TheRootList(config).list = <<>>
        THEN /\ pc \in {"validate", "done"}
             /\ calls = <<>>
             /\ pc = "done" => IsConfigError
        ELSE /\ ~IsConfigError
             /\ pc = "done" => calls # <<>>

\* A run on a plan whose root has an empty (not absent) list was rejected.
C24_Witness ==
    /\ config.hasDisk /\ NumEfi(config) = 1 /\ NumRoot(config) = 1
    /\ ~TheRootList(config).none /\ TheRootList(config).list = <<>>
    /\ pc = "done" /\ IsConfigError

(***************************************************************************)
(* execute_command with check=False.                                       *)
(***************************************************************************)
\* execute_command ran a process with check unset and it exited non-zero.
XUncheckedFailure ==
    /\ xcall.op = "execute_command" /\ xcall.done /\ ~xcall.check
    /\ xres.spawns # <<>>
    /\ xcall.env.t = "exit" /\ xcall.env.rc # 0

\* C25: with check=False, execute_command returns (exit code, stdout, stderr)
\* of a process that exited non-zero (stdout and stderr as captured); it
\* raises nothing and never calls the logger's error method.
C25_UncheckedFailureReturned ==
    XUncheckedFailure =>
        /\ ~xres.raised
        /\ xres.err = NoErr
        /\ xres.ret = <<xcall.env.rc, XStdout, XStderr>>
        /\ xres.ret[1] # 0
        /\ xres.logs.error = 0

\* The call of the test: ["fdisk", "-l"] exits 1 with stderr "Minor error".
C25_Witness ==
    /\ XUncheckedFailure
    /\ xcall.command = ListCmd(<<T("fdisk"), T("-l")>>)
    /\ xcall.capture_output /\ ~xcall.shell
    /\ xcall.env = Env("exit", 1, "", "Minor error")
    /\ xres.ret = <<1, "", "Minor error">>

(***************************************************************************)
(* A failure inside run.                                                   *)
(***************************************************************************)
\* run (not a dry run) called execute_command, which raised a
\* ShellCommandError (the class or a subclass).
XRunFailure ==
    /\ xcall.op = "run" /\ xcall.done /\ ~xcall.dryrun
    /\ xres.passed # <<>>
    /\ xres.raised /\ xres.err.kind \in ShellCommandErrorKinds

\* C26: when execute_command raises a ShellCommandError inside a run that is
\* not a dry run, run has entered the logger's step notifier exactly once,
\* the logger's error method has been called exactly once, and the caller
\* gets the ShellCommandError.
C26_RunFailureReported ==
    XRunFailure =>
        /\ xres.logs.step = 1
        /\ xres.logs.error = 1

(***************************************************************************)
(* Commands _prepare_command refuses.                                      *)
(***************************************************************************)
\* An empty string, None, an empty list, a list with an element that is not
\* a string, or a value that is neither a string nor a list.
InvalidInput(c) ==
    \/ c.type = "str" /\ c.str = <<>>
    \/ c.type = "NoneType"
    \/ c.type = "list" /\ c.words = <<>>
    \/ c.type = "list" /\ \E i \in 1..Len(c.words) : ~IsStr(c.words[i])
    \/ c.type \notin {"str", "list"}

\* C27: _prepare_command raises InvalidCommandError and returns no argument
\* list for an empty string, None, an empty list, a list with a non-string
\* element, and any command that is neither a string nor a list, with and
\* without chroot.
C27_InvalidCommandsRefused ==
    (xcall.op = "_prepare_command" /\ xcall.done /\ InvalidInput(xcall.command)) =>
        /\ xres.raised
        /\ xres.err.kind = "InvalidCommandError"
        /\ xres.list = <<>>

\* The list ["ls", 123] was handed over and refused, the error carrying its str().
C27_Witness ==
    /\ xcall.op = "_prepare_command" /\ xcall.done /\ xres.raised
    /\ xcall.command = ListCmd(<<T("ls"), NotStr("123")>>)
    /\ xres.err.command = <<"[", SQ, "ls", SQ, ",", SP, "123", "]">>

(***************************************************************************)
(* The step notifier.                                                      *)
(***************************************************************************)
\* The start and terminal lines of the log file, in the order written.
IsStepEvent(e) ==
    e.chan = "file" /\ e.tag \in {"[RUNNING]", "[COMPLETED]", "[FAILED]", "[CRITICAL]"}
StepEvents == SelectSeq(log, IsStepEvent)
\* Lines the step that is still open has written.
OpenEvents ==
    CASE stepctx.pc = "idle" -> 0
      [] stepctx.pc = "reraise" -> 2
      [] OTHER -> 1

C29_OneCommandInFlight ==
    /\ \A e, f \in inflight : e = f
    /\ \A e \in inflight : e.n = Len(calls) + 1
    /\ pc = "done" => inflight = {}

\* A real run with its third command in flight after two that returned.
C29_Witness ==
    /\ ~dry_run /\ Len(calls) = 2 /\ Ok(1) /\ Ok(2)
    /\ \E e \in inflight : e.n = 3

(***************************************************************************)
(* Closing the mapper that was opened.                                     *)
(***************************************************************************)
\* The luksOpen calls that succeeded, and the mapper name each opened (the
\* last word of the command).
Opened == {j \in 1..Len(calls) : StepAt(j) = "luksOpen" /\ Ok(j)}
OpenedName(j) == WordsOf(calls[j].command)[Len(WordsOf(calls[j].command))]

\* C30: once luksOpen has succeeded, a cleanup closes the mapper under the
\* name it was opened with (the configured cryptname, linuxroot when none is
\* configured): every luksClose of the cleanup names the opened mapper, and a
\* cleanup whose umount returned goes on to issue that luksClose.
C30_CleanupClosesOpenedMapper ==
    \A j \in Opened :
        /\ \A i \in 1..Len(calls) :
               StepAt(i) = "cleanup_close" =>
                   WordsOf(calls[i].command) =
                       <<T("cryptsetup"), T("luksClose"), OpenedName(j)>>
        /\ (pc = "done" /\ \E i \in 1..Len(calls) : StepAt(i) = "cleanup_umount" /\ Ok(i)) =>
               \E i \in 1..Len(calls) :
                   /\ StepAt(i) = "cleanup_close"
                   /\ WordsOf(calls[i].command)[3] = OpenedName(j)

(***************************************************************************)
(* Both cleanup commands.                                                  *)
(***************************************************************************)
\* C31: every cleanup attempts both of its commands: once the recursive
\* unmount has ended (by a non-zero exit, a timeout or a missing binary as
\* well as by success) the LUKS close is the next command, and no run ends
\* on the unmount.
C31_CleanupAttemptsBoth ==
    \A i \in 1..Len(calls) :
        StepAt(i) = "cleanup_umount" =>
            /\ i < Len(calls) => StepAt(i + 1) = "cleanup_close"
            /\ i = Len(calls) => pc # "done"

(***************************************************************************)
(* Created and mounted subvolumes.                                         *)
(***************************************************************************)
\* The part of text `t` after its first symbol `sym`.
AfterSymbol(t, sym) ==
    LET k == CHOOSE i \in 1..Len(t) : t[i] = sym /\ \A j \in 1..(i - 1) : t[j] # sym
    IN SubSeq(t, k + 1, Len(t))
\* The subvolume names created (the part of /mnt/<name> after the mount root).
CreatedNames == {SubSeq(CreatedPath(i), 4, Len(CreatedPath(i))) : i \in Creates}
\* The mounts of the remount phase and the subvol= name each one carries.
SubvolMounts == {i \in 1..Len(calls) : StepAt(i) \in {"remountRoot", "subvolMount"}}
MountedName(i) == AfterSymbol(WordsOf(calls[i].command)[3], ",subvol=")

\* C32: in a run that returns, the set of subvolume names created equals the
\* set of subvol= names mounted in the remount phase, and no subvol= name is
\* mounted by two commands.
C32_CreatedEqualsMounted ==
    outcome.state = "returned" =>
        /\ CreatedNames = {MountedName(i) : i \in SubvolMounts}
        /\ \A i, j \in SubvolMounts : MountedName(i) = MountedName(j) => i = j

(***************************************************************************)
(* How the LUKS commands are executed.                                     *)
(***************************************************************************)
\* C33: every process started for the LUKS format and the LUKS open command
\* is started with shell interpretation on the command string, so a shell
\* runs the pipe and cryptsetup reads the passphrase; the command is not a
\* word list whose program is printf with the pipe symbol and the cryptsetup
\* words as arguments.
C33_LuksCommandsThroughShell ==
    \A i \in 1..Len(calls) :
        StepAt(i) \in {"luksFormat", "luksOpen"} =>
            \A k \in 1..Len(calls[i].res.spawns) :
                /\ calls[i].res.spawns[k].shell
                /\ ~calls[i].res.spawns[k].cmd.isList
                /\ ~(WordsOf(calls[i].res.spawns[k].cmd)[1] = T("printf")
                     /\ HasWord(calls[i].res.spawns[k].cmd, T("|")))

(***************************************************************************)
(* Where a chroot command is executed.                                     *)
(***************************************************************************)
\* C34: every process that Executor.run starts for a call with chroot set
\* (and no dry run) is started on a command whose first two words are the
\* chroot invocation and the configured chroot path, with shell
\* interpretation and without.
C34_SpawnedInsideChroot ==
    (xcall.op = "run" /\ xcall.done /\ xcall.chroot /\ ~xcall.dryrun) =>
        \A k \in 1..Len(xres.spawns) :
            StartsWith(WordsOf(xres.spawns[k].cmd), <<T("arch-chroot"), chroot_path>>)

(***************************************************************************)
(* Destinations of the remount phase.                                      *)
(***************************************************************************)
\* The directories the remount loop creates and the targets it mounts on.
RemountDestinations ==
    {WordsOf(calls[i].command)[3] : i \in {j \in 1..Len(calls) : StepAt(j) = "subvolMkdir"}}
    \cup {MountTarget(i) : i \in {j \in 1..Len(calls) : StepAt(j) = "subvolMount"}}

\* C35: every directory the remount loop creates, and every target it mounts
\* a subvolume on, is the mount root joined with the cleaned name of a listed
\* path and lies under the mount root /mnt.
C35_DestinationUnderMountRoot ==
    \A d \in RemountDestinations :
        /\ \E k \in DOMAIN ListedSubvolumes :
               d = MNT \o <<"/">> \o CleanName(ListedSubvolumes[k])
        /\ UnderMountRoot(d)

(***************************************************************************)
(* Order of nested mounts.                                                 *)
(***************************************************************************)
\* Path `a` is a proper path-prefix of path `b`.
ProperPathPrefix(a, b) == a # b /\ StartsWith(b, a \o <<"/">>)

\* C36: among the mounts of the remount phase, a mount on a path comes
\* before every mount on a path below it (/mnt/var before /mnt/var/log),
\* whatever the order of the configured list.
C36_ParentMountedFirst ==
    \A i, j \in SubvolMounts :
        ProperPathPrefix(MountTarget(i), MountTarget(j)) => i < j

(***************************************************************************)
(* The mapped device.                                                      *)
(***************************************************************************)
\* Text `t` ends with text `suf`.
EndsWith(t, suf) == Len(t) >= Len(suf) /\ SubSeq(t, Len(t) - Len(suf) + 1, Len(t)) = suf
\* The configured mapper name, 'linuxroot' when none is configured.
ConfiguredMapperName ==
    IF Falsy(root_config(config).cryptname) THEN T("linuxroot")
    ELSE root_config(config).cryptname
\* The commands on the mapped device and the device word of each.
OnMappedDevice == {i \in 1..Len(calls) :
                       StepAt(i) \in {"mkfsBtrfs", "mountRaw", "remountRoot", "subvolMount"}}
DeviceWord(i) ==
    CASE StepAt(i) = "mkfsBtrfs" -> WordsOf(calls[i].command)[5]
      [] StepAt(i) = "mountRaw" -> WordsOf(calls[i].command)[2]
      [] OTHER -> WordsOf(calls[i].command)[4]

FinalMounts == {i \in 1..Len(calls) :
                    StepAt(i) \in {"remountRoot", "subvolMount", "efiMount"} /\ Ok(i)}
\* Mount i is still what is seen at its target: no later mount is on the
\* same path or on a path above it.
Visible(i) ==
    \A j \in FinalMounts :
        j > i => /\ MountTarget(j) # MountTarget(i)
                 /\ ~ProperPathPrefix(MountTarget(j), MountTarget(i))

\* C38: in a real run in which every command succeeded, cleanup_mounts is
\* not invoked and no unmount or LUKS close follows the root remount; once
\* that run has ended it has returned normally, luksOpen has succeeded, the
\* root subvolume @ is what is mounted on /mnt, every listed path that does
\* not normalize to the root has its subvolume mounted on the mount root
\* joined with its cleaned name, and the EFI partition is mounted.
C38_SuccessLeavesEverythingMounted ==
    (~dry_run /\ \A i \in 1..Len(calls) : Ok(i)) =>
        /\ cleanups = 0
        /\ \A i \in 1..Len(calls) : ~IsCleanupCall(i)
        /\ \A i, j \in 1..Len(calls) :
               (StepAt(i) = "remountRoot" /\ j > i) => KindAt(j) # "umount"
        /\ (outcome.state # "running" /\ Len(calls) > 0) =>
            /\ outcome.state = "returned"
            /\ Opened # {}
            /\ \E i \in FinalMounts :
                   /\ StepAt(i) = "remountRoot" /\ MountTarget(i) = MNT
                   /\ MountedName(i) = <<"@">> /\ Visible(i)
            /\ \A k \in NotRootEntries :
                   \E i \in FinalMounts :
                       /\ StepAt(i) = "subvolMount"
                       /\ MountedName(i) = NormName(ListedSubvolumes[k])
                       /\ MountTarget(i) = MNT \o <<"/">> \o CleanName(ListedSubvolumes[k])
                       /\ Visible(i)
            /\ \E i \in FinalMounts : StepAt(i) = "efiMount" /\ Visible(i)

(***************************************************************************)
(* Filesystems format_partition formats.                                   *)
(***************************************************************************)
\* C39: a call of format_partition with a filesystem the partition model
\* allows hands exactly one command to the process spawner, a command on the
\* given partition, and does not end in ValueError; a call with any other
\* filesystem ends in ValueError and hands no command to the spawner.
C39_FormatsEveryAllowedFilesystem ==
    (xcall.op = "format_partition" /\ xcall.done) =>
        IF xcall.filesystem \in PartitionFilesystems THEN
            /\ Len(xres.spawns) = 1
            /\ HasWord(xres.spawns[1].cmd, xcall.partition_path)
            /\ ~(xres.raised /\ xres.err.kind = "ValueError")
        ELSE
            /\ xres.raised /\ xres.err.kind = "ValueError"
            /\ xres.spawns = <<>>

====
